---------------------------- MODULE Spec2Model ----------------------------
(***************************************************************************)
(* Shazi Shell: the in-memory virtual filesystem (src/src/vfs.ts), the     *)
(* shell evaluator (src/src/shell.ts, with the parser of                   *)
(* src/unnamed/part_003 and the builtins of src/src/builtins.ts) and the   *)
(* worker that owns the session (src/src/worker.ts).                       *)
(*                                                                         *)
(* Strings are modelled as sequences: a path is its '/'-separated segments *)
(* with a flag for a leading '/', a text (file content, output) is the     *)
(* sequence of its words and newlines.                                     *)
(***************************************************************************)
EXTENDS Integers, Sequences, FiniteSets, TLC

VARIABLES
    vfs,        \* the VirtualFileSystem object: [nodes, cwd]
    lastErr,    \* outcome of the last direct VFS call: "OK" or the error thrown
    opCount,    \* number of direct VFS calls made (bounded by MaxOps)
    call,       \* the last direct VFS call: its name, arguments and the VFS before it
    shell,      \* the Shell object of the worker
    session,    \* the terminal that owns the session
    posted,     \* the messages the worker posted while handling the last request
    log,        \* what happened while the last line was evaluated
    line,       \* the last line received
    outcome,    \* how its execute ended: returned code, or thrown exit request
    pre,        \* the VFS, the sink and the functions when the line started
    lineCount,  \* number of lines handled (bounded by MaxLines)
    inflight,   \* the exec requests whose handler is suspended at a timer
    loop,       \* the while or until loop the handler of the last line is in
    applied,    \* the last direct call of a function of the parser: input and result
    backend     \* the sandbox backend: its WebSocket connections and their containers

(***************************************************************************)
(* Bounds of the model.                                                    *)
(***************************************************************************)
MaxOps == 2
MaxNodes == 9
MaxLines == 2
MaxLoops == 1
MaxDepth == 4
\* The largest number an arithmetic expression is written with.
MaxNumber == 5

(***************************************************************************)
(* Generic helpers.                                                        *)
(***************************************************************************)
EmptyMap == [x \in {} |-> 0]

MapSet(f, k, v) == [x \in (DOMAIN f) \cup {k} |-> IF x = k THEN v ELSE f[x]]

MapDel(f, k) == [x \in (DOMAIN f) \ {k} |-> f[x]]

Last(s) == s[Len(s)]

Front(s) == SubSeq(s, 1, Len(s) - 1)

(***************************************************************************)
(* INode and the VFS object.  The JavaScript object graph is a heap: nodes *)
(* maps a node identity to the INode, a directory's children map names to  *)
(* node identities.  The root object is identity 0 and is never reassigned.*)
(***************************************************************************)
RootId == 0

createDirectory == [type |-> "directory", children |-> EmptyMap, content |-> <<>>]

createFile(content) == [type |-> "file", children |-> EmptyMap, content |-> content]

FreshId(nodes) ==
    CHOOSE i \in 0..Cardinality(DOMAIN nodes) :
        /\ i \notin DOMAIN nodes
        /\ \A j \in 0..Cardinality(DOMAIN nodes) : j \notin DOMAIN nodes => i <= j

\* A path string: abs says whether it starts with '/', parts are the pieces
\* between the slashes.
AbsPath(parts) == [abs |-> TRUE, parts |-> parts]

RelPath(parts) == [abs |-> FALSE, parts |-> parts]

RECURSIVE normalizeParts(_, _)
normalizeParts(parts, normalized) ==
    IF parts = <<>> THEN normalized
    ELSE LET part == Head(parts)
         IN IF part = "" \/ part = "."
            THEN normalizeParts(Tail(parts), normalized)
            ELSE IF part = ".."
            THEN normalizeParts(Tail(parts),
                                IF normalized = <<>> THEN <<>> ELSE Front(normalized))
            ELSE normalizeParts(Tail(parts), Append(normalized, part))

\* The normalized absolute path, as the sequence of its segments.
normalizePath(parts) == normalizeParts(parts, <<>>)

resolvePath(v, path) ==
    IF path.abs THEN normalizePath(path.parts)
    ELSE normalizePath(v.cwd \o path.parts)

NoNode == -1

RECURSIVE walk(_, _, _)
walk(nodes, current, parts) ==
    IF parts = <<>> THEN current
    ELSE IF nodes[current].type # "directory" THEN NoNode
    ELSE IF Head(parts) \notin DOMAIN nodes[current].children THEN NoNode
    ELSE walk(nodes, nodes[current].children[Head(parts)], Tail(parts))

getNode(v, path) == walk(v.nodes, RootId, resolvePath(v, path))

\* kind "root": throws 'Cannot operate on root'; "null": returns null;
\* "ok": { parent, name }.
getParentAndName(v, path) ==
    LET resolved == resolvePath(v, path)
    IN IF resolved = <<>> THEN [kind |-> "root", parent |-> NoNode, name |-> ""]
       ELSE LET parent == walk(v.nodes, RootId, Front(resolved))
            IN IF parent = NoNode \/ v.nodes[parent].type # "directory"
               THEN [kind |-> "null", parent |-> NoNode, name |-> ""]
               ELSE [kind |-> "ok", parent |-> parent, name |-> Last(resolved)]

exists(v, path) == getNode(v, path) # NoNode

\* Node identities reachable from the nodes in frontier through children
\* (the graph may be cyclic, so this is a closure, not a tree walk).
RECURSIVE Reach(_, _)
Reach(nodes, seen) ==
    LET next == seen \cup
                 UNION {{nodes[n].children[k] : k \in DOMAIN nodes[n].children} : n \in seen}
    IN IF next = seen THEN seen ELSE Reach(nodes, next)

\* A node object dropped from the heap: nothing refers to it any more.
Drop(nodes, gone) == [n \in (DOMAIN nodes) \ gone |-> nodes[n]]

SetChild(nodes, parent, name, id) ==
    [nodes EXCEPT ![parent].children = MapSet(@, name, id)]

DelChild(nodes, parent, name) ==
    [nodes EXCEPT ![parent].children = MapDel(@, name)]

Ret(v, err) == [v |-> v, err |-> err]

(***************************************************************************)
(* Public API of VirtualFileSystem.  Each operation returns the VFS after  *)
(* the call and "OK" or the code of the error it throws.                   *)
(***************************************************************************)
statOp(v, path) ==
    IF getNode(v, path) = NoNode THEN "ENOENT" ELSE "OK"

readFileErr(v, path) ==
    LET node == getNode(v, path)
    IN IF node = NoNode THEN "ENOENT"
       ELSE IF v.nodes[node].type # "file" THEN "EISDIR"
       ELSE "OK"

readFile(v, path) == v.nodes[getNode(v, path)].content

\* A writeFile that leaves an existing file as it is.
writeFileOnce(v, path, content) ==
    LET info == getParentAndName(v, path)
    IN IF info.kind = "root" THEN Ret(v, "EROOT")
       ELSE IF info.kind = "null" THEN Ret(v, "ENOENT")
       ELSE LET kids == v.nodes[info.parent].children
                has == info.name \in DOMAIN kids
            IN IF has /\ v.nodes[kids[info.name]].type = "directory"
               THEN Ret(v, "EISDIR")
               ELSE IF has THEN Ret(v, "OK")
               ELSE LET id == FreshId(v.nodes)
                        made == MapSet(v.nodes, id, createFile(content))
                    IN Ret([v EXCEPT !.nodes = SetChild(made, info.parent, info.name, id)],
                           "OK")

writeFile(v, path, content) ==
    LET info == getParentAndName(v, path)
    IN IF info.kind = "root" THEN Ret(v, "EROOT")
       ELSE IF info.kind = "null" THEN Ret(v, "ENOENT")
       ELSE LET kids == v.nodes[info.parent].children
                has == info.name \in DOMAIN kids
            IN IF has /\ v.nodes[kids[info.name]].type = "directory"
               THEN Ret(v, "EISDIR")
               ELSE LET kept == IF has THEN Drop(v.nodes, {kids[info.name]}) ELSE v.nodes
                        id == FreshId(kept)
                        made == MapSet(kept, id, createFile(content))
                    IN Ret([v EXCEPT !.nodes = SetChild(made, info.parent, info.name, id)],
                           "OK")

mkdir(v, path) ==
    LET info == getParentAndName(v, path)
    IN IF info.kind = "root" THEN Ret(v, "EROOT")
       ELSE IF info.kind = "null" THEN Ret(v, "ENOENT")
       ELSE IF info.name \in DOMAIN v.nodes[info.parent].children THEN Ret(v, "EEXIST")
       ELSE LET id == FreshId(v.nodes)
                made == MapSet(v.nodes, id, createDirectory)
            IN Ret([v EXCEPT !.nodes = SetChild(made, info.parent, info.name, id)], "OK")

\* An mkdirp that puts a new directory at every segment, also where one is.
RECURSIVE mkdirpLoopReplace(_, _, _)
mkdirpLoopReplace(v, current, parts) ==
    IF parts = <<>> THEN Ret(v, "OK")
    ELSE LET part == Head(parts)
             id == FreshId(v.nodes)
             nodes1 == SetChild(MapSet(v.nodes, id, createDirectory), current, part, id)
         IN mkdirpLoopReplace([v EXCEPT !.nodes = nodes1], id, Tail(parts))

RECURSIVE mkdirpLoop(_, _, _)
mkdirpLoop(v, current, parts) ==
    IF parts = <<>> THEN Ret(v, "OK")
    ELSE LET part == Head(parts)
             has == part \in DOMAIN v.nodes[current].children
             id == IF has THEN v.nodes[current].children[part] ELSE FreshId(v.nodes)
             nodes1 == IF has THEN v.nodes
                       ELSE SetChild(MapSet(v.nodes, id, createDirectory), current, part, id)
             v1 == [v EXCEPT !.nodes = nodes1]
         IN IF nodes1[id].type # "directory" THEN Ret(v1, "ENOTDIR")
            ELSE mkdirpLoop(v1, id, Tail(parts))

mkdirp(v, path) == mkdirpLoop(v, RootId, resolvePath(v, path))

rmdir(v, path) ==
    LET node == getNode(v, path)
    IN IF node = NoNode THEN Ret(v, "ENOENT")
       ELSE IF v.nodes[node].type # "directory" THEN Ret(v, "ENOTDIR")
       ELSE IF DOMAIN v.nodes[node].children # {} THEN Ret(v, "ENOTEMPTY")
       ELSE LET info == getParentAndName(v, path)
            IN IF info.kind = "root" THEN Ret(v, "EROOT")
               ELSE IF info.kind = "null" THEN Ret(v, "OK")
               ELSE Ret([v EXCEPT !.nodes =
                            Drop(DelChild(v.nodes, info.parent, info.name), {node})], "OK")

unlink(v, path) ==
    LET node == getNode(v, path)
    IN IF node = NoNode THEN Ret(v, "ENOENT")
       ELSE IF v.nodes[node].type = "directory" THEN Ret(v, "EISDIR")
       ELSE LET info == getParentAndName(v, path)
            IN IF info.kind = "root" THEN Ret(v, "EROOT")
               ELSE IF info.kind = "null" THEN Ret(v, "OK")
               ELSE Ret([v EXCEPT !.nodes =
                            Drop(DelChild(v.nodes, info.parent, info.name), {node})], "OK")

readdirErr(v, path) ==
    LET node == getNode(v, path)
    IN IF node = NoNode THEN "ENOENT"
       ELSE IF v.nodes[node].type # "directory" THEN "ENOTDIR"
       ELSE "OK"

\* A rename that takes the source out of its parent before it looks at the
\* destination.
renameDetachFirst(v, oldPath, newPath) ==
    LET node == getNode(v, oldPath)
    IN IF node = NoNode THEN Ret(v, "ENOENT")
       ELSE LET oldInfo == getParentAndName(v, oldPath)
            IN IF oldInfo.kind # "ok" THEN Ret(v, "EROOT")
               ELSE LET detached == [v EXCEPT !.nodes =
                                        DelChild(v.nodes, oldInfo.parent, oldInfo.name)]
                        newInfo == getParentAndName(v, newPath)
                    IN IF newInfo.kind = "root" THEN Ret(detached, "EROOT")
                       ELSE IF newInfo.kind = "null" THEN Ret(detached, "ENOENT")
                       ELSE Ret([v EXCEPT !.nodes =
                                    SetChild(detached.nodes, newInfo.parent,
                                             newInfo.name, node)], "OK")

\* The node object is taken out of its old parent and put under the new
\* name.  The object that was at the destination, and what hung below it, is
\* dropped unless it is (part of) the moved object.
rename(v, oldPath, newPath) ==
    LET node == getNode(v, oldPath)
    IN IF node = NoNode THEN Ret(v, "ENOENT")
       ELSE LET newInfo == getParentAndName(v, newPath)
            IN IF newInfo.kind = "root" THEN Ret(v, "EROOT")
               ELSE IF newInfo.kind = "null" THEN Ret(v, "ENOENT")
               ELSE LET oldInfo == getParentAndName(v, oldPath)
                    IN IF oldInfo.kind = "root" THEN Ret(v, "EROOT")
                       ELSE LET kids == v.nodes[newInfo.parent].children
                                dest == IF newInfo.name \in DOMAIN kids
                                        THEN kids[newInfo.name] ELSE NoNode
                                detached == IF oldInfo.kind = "ok"
                                            THEN DelChild(v.nodes, oldInfo.parent, oldInfo.name)
                                            ELSE v.nodes
                                attached == SetChild(detached, newInfo.parent, newInfo.name, node)
                                gone == IF dest = NoNode \/ dest = node THEN {}
                                        ELSE Reach(v.nodes, {dest}) \ Reach(attached, {node})
                            IN Ret([v EXCEPT !.nodes = Drop(attached, gone)], "OK")

getCwd(v) == v.cwd

setCwd(v, path) ==
    LET node == getNode(v, path)
    IN IF node = NoNode THEN Ret(v, "ENOENT")
       ELSE IF v.nodes[node].type # "directory" THEN Ret(v, "ENOTDIR")
       ELSE Ret([v EXCEPT !.cwd = resolvePath(v, path)], "OK")

\* The welcome file's text.
WelcomeText == <<"Welcome", "\n">>

\* new VirtualFileSystem(): the root directory, then initializeFilesystem().
NewVfs ==
    LET v0 == [nodes |-> [n \in {RootId} |-> createDirectory], cwd |-> <<"home", "user">>]
        v1 == mkdirp(v0, AbsPath(<<"home", "user">>)).v
        v2 == mkdirp(v1, AbsPath(<<"tmp">>)).v
        v3 == mkdirp(v2, AbsPath(<<"bin">>)).v
        v4 == mkdirp(v3, AbsPath(<<"lib">>)).v
    IN writeFile(v4, AbsPath(<<"home", "user", "README.txt">>), WelcomeText).v

(***************************************************************************)
(* The parser (shell-parser).  An input line is the sequence of its        *)
(* whitespace-separated tokens: words, the operators && || ; and |, the    *)
(* redirection operators and the control keywords.  A quoted string is one *)
(* word.                                                                   *)
(***************************************************************************)
Operators == {"&&", "||", ";"}

RedirectTypes == {">", ">>", "<", "2>", "2>>", "&>", "2>&1"}

\* Index of the first token of s that is one of S, 0 when there is none (the
\* left-to-right scans of splitByOperators and splitByPipes).
FirstIn(s, S) ==
    LET hits == {i \in 1..Len(s) : s[i] \in S}
    IN IF hits = {} THEN 0 ELSE CHOOSE i \in hits : \A j \in hits : i <= j

\* What a token adds to parenDepth: the tokens are words, so only the
\* opening of a command substitution, a '(' and a lone ')' count (name()
\* cancels).
ParenDelta(tok) ==
    CASE tok \in {"$(", "("} -> 1
      [] tok = ")" -> -1
      [] OTHER -> 0

RECURSIVE ParenDepth(_, _)
ParenDepth(s, i) == IF i = 0 THEN 0 ELSE ParenDepth(s, i - 1) + ParenDelta(s[i])

\* Index of the first token of s that is one of S outside parentheses.
FirstOutside(s, S) ==
    LET hits == {i \in 1..Len(s) : s[i] \in S /\ ParenDepth(s, i) = 0}
    IN IF hits = {} THEN 0 ELSE CHOOSE i \in hits : \A j \in hits : i <= j

RECURSIVE matchKeyword(_, _, _, _, _)
matchKeyword(input, open, close, i, depth) ==
    IF i > Len(input) THEN 0
    ELSE IF input[i] = open THEN matchKeyword(input, open, close, i + 1, depth + 1)
    ELSE IF input[i] = close
         THEN IF depth - 1 = 0 THEN i
              ELSE matchKeyword(input, open, close, i + 1, depth - 1)
    ELSE matchKeyword(input, open, close, i + 1, depth)

\* Position of the closing keyword that brings the nesting depth back to 0,
\* 0 when there is none.
findMatchingKeyword(input, open, close) == matchKeyword(input, open, close, 1, 0)

NoStructure == [found |-> FALSE, type |-> "", content |-> <<>>, remaining |-> <<>>]

\* The keywords that open a control structure, in the order in which
\* extractControlStructure tests them, and the keyword that closes each.
ControlKeywords == {"for", "while", "until", "if", "case"}

Terminator(keyword) ==
    CASE keyword \in {"for", "while", "until"} -> "done"
      [] keyword = "if" -> "fi"
      [] OTHER -> "esac"

\* Only the test of the input's first word can pass, so only its terminator
\* is looked for.
extractControlStructure(input) ==
    IF Len(input) > 1 /\ Head(input) \in ControlKeywords
    THEN LET idx == findMatchingKeyword(input, Head(input), Terminator(Head(input)))
         IN IF idx # 0
            THEN [found |-> TRUE, type |-> Head(input),
                  content |-> SubSeq(input, 1, idx),
                  remaining |-> SubSeq(input, idx + 1, Len(input))]
            ELSE NoStructure
    ELSE NoStructure

RECURSIVE splitByOperators(_)
splitByOperators(remaining) ==
    IF remaining = <<>> THEN <<>>
    ELSE LET ctrl == extractControlStructure(remaining)
         IN IF ctrl.found
            THEN LET afterCtrl == ctrl.remaining
                     hasOp == afterCtrl # <<>> /\ Head(afterCtrl) \in Operators
                 IN <<[command |-> ctrl.content,
                       operator |-> IF hasOp THEN Head(afterCtrl) ELSE "null"]>>
                    \o splitByOperators(IF hasOp THEN Tail(afterCtrl) ELSE afterCtrl)
            ELSE LET foundIdx == FirstOutside(remaining, Operators)
                 IN IF foundIdx # 0
                    THEN (IF foundIdx > 1
                          THEN <<[command |-> SubSeq(remaining, 1, foundIdx - 1),
                                  operator |-> remaining[foundIdx]]>>
                          ELSE <<>>)
                         \o splitByOperators(SubSeq(remaining, foundIdx + 1, Len(remaining)))
                    ELSE <<[command |-> remaining, operator |-> "null"]>>

\* Every part before a '|' is pushed, the text after the last '|' only when
\* it is not empty.
RECURSIVE splitByPipes(_)
splitByPipes(input) ==
    LET idx == FirstOutside(input, {"|"})
    IN IF idx # 0
       THEN <<SubSeq(input, 1, idx - 1)>> \o splitByPipes(SubSeq(input, idx + 1, Len(input)))
       ELSE IF input = <<>> THEN <<>> ELSE <<input>>

\* tokenizeCommand: the words, and the redirections with their targets.  A
\* redirection operator that no target word follows is dropped.
RECURSIVE tokenizeLoop(_, _, _)
tokenizeLoop(input, tokens, redirects) ==
    IF input = <<>> THEN [tokens |-> tokens, redirects |-> redirects]
    ELSE IF Head(input) \in RedirectTypes
    THEN IF Len(input) > 1 /\ input[2] \notin RedirectTypes
         THEN tokenizeLoop(Tail(Tail(input)), tokens,
                           Append(redirects, [type |-> Head(input), target |-> input[2]]))
         ELSE tokenizeLoop(Tail(input), tokens, redirects)
    ELSE tokenizeLoop(Tail(input), Append(tokens, Head(input)), redirects)

tokenizeCommand(input) ==
    LET t == tokenizeLoop(input, <<>>, <<>>)
    IN [cmd |-> IF t.tokens = <<>> THEN "" ELSE Head(t.tokens),
        args |-> IF t.tokens = <<>> THEN <<>> ELSE Tail(t.tokens),
        redirects |-> t.redirects]

(***************************************************************************)
(* The Shell object during the evaluation of one input line.  st holds the *)
(* fields of Shell (onOutput, functions, scriptArgs, lastExitCode,         *)
(* aliases, history), the VFS, the capture closures alive (caps), the      *)
(* messages the worker posted to the main thread (posted) and a log of     *)
(* what happened, which only the properties read.                          *)
(*                                                                         *)
(* An output sink is a closure: the worker's handleOutput (the real sink)  *)
(* or a capturing closure, identified by the buffer variable it appends    *)
(* to.  caps[id] holds that buffer, the sink the closure forwards error    *)
(* output to, and whether it keeps error output too (captureOutput's       *)
(* closure ignores isError).                                               *)
(***************************************************************************)
RealSink == [kind |-> "real", id |-> 0]

CaptureSink(id) == [kind |-> "capture", id |-> id]

\* One entry of the log: what happened (e), the word or file it is about,
\* the text involved, a flag, an index, an exit code, the nesting level of
\* execute it happened at, and for the start and the end of a stage the VFS
\* and the sink at that moment.
NoSnap == [vfs |-> <<>>, onOutput |-> <<>>]

Event(e, cmd, data, err, n, code) ==
    [e |-> e, cmd |-> cmd, data |-> data, err |-> err, n |-> n, code |-> code,
     lvl |-> 0, snap |-> NoSnap]

Logged(st, ev) ==
    [st EXCEPT !.log = Append(@, [ev EXCEPT !.lvl = st.level,
                                            !.snap = IF ev.e \in {"stage", "stage-end"}
                                                     THEN [vfs |-> st.vfs, onOutput |-> st.onOutput]
                                                     ELSE NoSnap])]

Message(type, data, code) == [type |-> type, data |-> data, code |-> code]

FreshCap(caps) ==
    CHOOSE i \in 1..(Cardinality(DOMAIN caps) + 1) :
        /\ i \notin DOMAIN caps
        /\ \A j \in 1..(Cardinality(DOMAIN caps) + 1) : j \notin DOMAIN caps => i <= j

\* A new buffer variable of a frame whose originalOutput is orig.
NewBuffer(st, orig, all) ==
    Logged([st EXCEPT !.caps = MapSet(@, FreshCap(st.caps),
                                      [buf |-> <<>>, orig |-> orig, all |-> all])],
           Event("capture", "", <<>>, all, FreshCap(st.caps), 0))

\* handleOutput of the worker: one message per call.
handleOutput(st, data, isError) ==
    [st EXCEPT !.posted =
        Append(@, Message(IF isError THEN "stderr" ELSE "stdout", data, 0))]

\* Calling the closure sink with (data, isError).
RECURSIVE Emit(_, _, _, _)
Emit(st, sink, data, isError) ==
    IF sink.kind = "real" THEN handleOutput(st, data, isError)
    ELSE LET c == st.caps[sink.id]
         IN IF c.all \/ ~isError
            THEN [st EXCEPT !.caps[sink.id].buf = @ \o data]
            ELSE Emit(st, c.orig, data, isError)

\* Shell.write: this.onOutput(text, isError).
write(st, text, isError) ==
    Emit(Logged(st, Event("write", "", text, isError, 0, 0)), st.onOutput, text, isError)

\* Shell.writeln: write(text + '\n').
writeln(st, text, isError) == write(st, text \o <<"\n">>, isError)

\* What an evaluation function returns (thrown = "none", code is its exit
\* code) or throws: the exit request { type: 'exit', code } or an Error.
Returns(st, code) == [st |-> st, code |-> code, thrown |-> "none"]

ThrowsExit(st, code) == [st |-> st, code |-> code, thrown |-> "exit"]

ThrowsError(st) == [st |-> st, code |-> 0, thrown |-> "error"]

\* A word used as a path.
PathOfWord(w) ==
    CASE w = "/tmp" -> AbsPath(<<"tmp">>)
      [] w = "/" -> AbsPath(<<>>)
      [] w = "/nodir" -> AbsPath(<<"nodir">>)
      [] w = "/home" -> AbsPath(<<"home">>)
      [] w = "/tmp/f" -> AbsPath(<<"tmp", "f">>)
      [] w = "../.." -> RelPath(<<"..", "..">>)
      [] OTHER -> RelPath(<<w>>)

\* String.prototype.trim on a text: leading and trailing newlines go.
RECURSIVE trimStart(_)
trimStart(t) == IF t # <<>> /\ Head(t) = "\n" THEN trimStart(Tail(t)) ELSE t

RECURSIVE trimEnd(_)
trimEnd(t) == IF t # <<>> /\ Last(t) = "\n" THEN trimEnd(Front(t)) ELSE t

trim(t) == trimEnd(trimStart(t))

\* The value of a command that returned something that is not a number.
NotANumber == -1

parseInt(w) ==
    CASE w = "0" -> 0
      [] w = "1" -> 1
      [] w = "3" -> 3
      [] OTHER -> NotANumber

\* The builtins, the methods of Shell and the commands they run call each
\* other; the call of one of them is written Call(name, arguments).
RECURSIVE Call(_, _)

(***************************************************************************)
(* Builtins (builtins.ts).  BUILTINS is an object literal, so BUILTINS[cmd]*)
(* also finds what it inherits from Object.prototype.                      *)
(***************************************************************************)
BuiltinNames ==
    {"true", "false", "echo", "cat", "exit", "touch", "sleep", "history", "cd", "rm",
     "export", "unset"}

ObjectPrototypeNames == {"constructor"}

HasBuiltin(cmd) == cmd \in BuiltinNames \cup ObjectPrototypeNames

RECURSIVE catFiles(_, _)
catFiles(st, files) ==
    IF files = <<>> THEN Returns(st, 0)
    ELSE IF readFileErr(st.vfs, PathOfWord(Head(files))) = "OK"
    THEN catFiles(write(st, readFile(st.vfs, PathOfWord(Head(files))), FALSE), Tail(files))
    ELSE Returns(write(st, <<"cat:", readFileErr(st.vfs, PathOfWord(Head(files))), "\n">>, TRUE), 1)

cat(st, args, stdin) ==
    IF stdin # <<>> THEN Returns(write(st, stdin, FALSE), 0)
    ELSE IF args = <<>> THEN Returns(st, 0)
    ELSE catFiles(st, args)

echo(st, args) ==
    LET parts == SelectSeq(args, LAMBDA a : a \notin {"-n", "-e"})
        noNewline == \E i \in 1..Len(args) : args[i] = "-n"
    IN Returns(IF noNewline THEN write(st, parts, FALSE) ELSE writeln(st, parts, FALSE), 0)

RECURSIVE touchFiles(_, _)
touchFiles(st, paths) ==
    IF paths = <<>> THEN Returns(st, 0)
    ELSE IF exists(st.vfs, PathOfWord(Head(paths))) THEN touchFiles(st, Tail(paths))
    ELSE LET r == Call("writeFile", <<st.vfs, PathOfWord(Head(paths)), <<>>>>)
         IN IF r.err = "OK" THEN touchFiles([st EXCEPT !.vfs = r.v], Tail(paths))
            ELSE Returns(write(st, <<"touch:", r.err, "\n">>, TRUE), 1)

touch(st, args) ==
    IF args = <<>> THEN Returns(write(st, <<"touch: missing operand", "\n">>, TRUE), 1)
    ELSE touchFiles(st, args)

cd(st, args) ==
    LET r == setCwd(st.vfs, IF args = <<>> THEN AbsPath(<<"home", "user">>)
                            ELSE PathOfWord(Head(args)))
    IN IF r.err = "OK" THEN Returns([st EXCEPT !.vfs = r.v], 0)
       ELSE Returns(write(st, <<"cd:", r.err, "\n">>, TRUE), 1)

\* rm: the arguments that start with '-', and those of them that hold an
\* r or R, and an f.
FlagWords == {"-r", "-R", "-f", "-rf", "-v"}

RecursiveFlags == {"-r", "-R", "-rf"}

ForceFlags == {"-f", "-rf"}

\* removeRecursive of rm: the VFS it leaves and the error it throws.  The
\* children are removed in the order of readdir; as long as none fails the
\* order makes no difference.
RECURSIVE removeRecursive(_, _, _)
RECURSIVE removeChildren(_, _, _, _)
removeChildren(v, path, names, recursive) ==
    IF names = {} THEN rmdir(v, path)
    ELSE LET child == CHOOSE n \in names : TRUE
             r == removeRecursive(v, [path EXCEPT !.parts = Append(@, child)], recursive)
         IN IF r.err # "OK" THEN r
            ELSE removeChildren(r.v, path, names \ {child}, recursive)

removeRecursive(v, path, recursive) ==
    IF statOp(v, path) # "OK" THEN Ret(v, statOp(v, path))
    ELSE IF v.nodes[getNode(v, path)].type = "directory"
    THEN IF ~recursive THEN Ret(v, "Is a directory")
         ELSE removeChildren(v, path, DOMAIN v.nodes[getNode(v, path)].children, recursive)
    ELSE unlink(v, path)

\* The loop of rm over the paths.
RECURSIVE rmLoop(_, _, _, _)
rmLoop(st, paths, recursive, force) ==
    IF paths = <<>> THEN Returns(st, 0)
    ELSE IF ~exists(st.vfs, PathOfWord(Head(paths)))
    THEN IF ~force
         THEN Returns(write(st, <<"rm: cannot remove", Head(paths),
                                  "No such file or directory", "\n">>, TRUE), 1)
         ELSE rmLoop(st, Tail(paths), recursive, force)
    ELSE LET r == removeRecursive(st.vfs, PathOfWord(Head(paths)), recursive)
             st1 == [st EXCEPT !.vfs = r.v]
         IN IF r.err # "OK" /\ ~force
            THEN Returns(write(st1, <<"rm:", r.err, "\n">>, TRUE), 1)
            ELSE rmLoop(st1, Tail(paths), recursive, force)

rm(st, args) ==
    LET recursive == \E k \in DOMAIN args : args[k] \in RecursiveFlags
        force == \E k \in DOMAIN args : args[k] \in ForceFlags
        paths == SelectSeq(args, LAMBDA a : a \notin FlagWords)
    IN IF paths = <<>>
       THEN (IF force THEN Returns(st, 0)
             ELSE Returns(write(st, <<"rm: missing operand", "\n">>, TRUE), 1))
       ELSE rmLoop(st, paths, recursive, force)

exitCmd(st, args) ==
    LET code == parseInt(IF args = <<>> THEN "0" ELSE Head(args))
    IN ThrowsExit(Logged(st, Event("exit", "", <<>>, FALSE, 0, code)), code)

AssignWords == {"x=", "y="}

AssignedName(tok) == IF tok = "x=" THEN "x" ELSE "y"

\* new Map([...this.env, ...this.localVars]): a local variable hides the
\* environment's.
allVars(st) ==
    [n \in DOMAIN st.env \cup DOMAIN st.localVars |->
        IF n \in DOMAIN st.localVars THEN st.localVars[n] ELSE st.env[n]]

\* The context a builtin is called with: its env is a new Map made of the
\* shell's env and localVars.
createContext(st) == [env |-> allVars(st)]

\* The words of a name: /^\w+$/.
NameWords == {"x", "y", "USER"}

\* The arguments of export.  An argument name=value is written as the token
\* name= and, when the value is not empty, the token of the value after it.
\* The result is the exit code and the context as the builtin leaves it.
RECURSIVE exportLoop(_, _, _)
exportLoop(st, ctx, args) ==
    IF args = <<>> THEN [ret |-> Returns(st, 0), ctx |-> ctx]
    ELSE IF Head(args) \in AssignWords
    THEN LET valued == Len(args) >= 2 /\ args[2] \notin AssignWords \cup NameWords
         IN exportLoop(st,
                       [ctx EXCEPT !.env = MapSet(@, AssignedName(Head(args)),
                                                  IF valued THEN <<args[2]>> ELSE <<>>)],
                       IF valued THEN Tail(Tail(args)) ELSE Tail(args))
    ELSE IF Head(args) \in NameWords
    THEN exportLoop(st,
                    IF Head(args) \in DOMAIN ctx.env THEN ctx
                    ELSE [ctx EXCEPT !.env = MapSet(@, Head(args), <<>>)],
                    Tail(args))
    ELSE [ret |-> Returns(write(st, <<"export: invalid format:", Head(args), "\n">>, TRUE), 1),
          ctx |-> ctx]

exportCmd(st, ctx, args) == exportLoop(st, ctx, args)

RECURSIVE unset(_, _, _)
unset(st, ctx, args) ==
    IF args = <<>> THEN [ret |-> Returns(st, 0), ctx |-> ctx]
    ELSE unset(st, [ctx EXCEPT !.env = MapDel(@, Head(args))], Tail(args))

\* BUILTINS[cmd](ctx) with the context createContext(args, stdin) made.
callBuiltin(st, cmd, args, stdin) ==
    CASE cmd = "true" -> Returns(st, 0)
      [] cmd = "false" -> Returns(st, 1)
      [] cmd = "echo" -> echo(st, args)
      [] cmd = "cat" -> cat(st, args, stdin)
      [] cmd = "exit" -> exitCmd(st, args)
      [] cmd = "touch" -> touch(st, args)
      [] cmd = "rm" -> rm(st, args)
      [] cmd = "cd" -> cd(st, args)
      [] cmd = "sleep" -> Returns(st, 0)
      [] cmd = "history" -> Returns(st, 0)
      [] cmd = "export" -> exportCmd(st, createContext(st), args).ret
      [] cmd = "unset" -> unset(st, createContext(st), args).ret
      [] OTHER -> Returns(st, NotANumber)   \* Object.prototype.constructor(ctx) is ctx

(***************************************************************************)
(* Shell (shell.ts): the evaluation of a line.  The functions call each    *)
(* other; depth is the number of nested execute calls the call stack still *)
(* has room for (exhausting it is an ordinary error, a RangeError).        *)
(***************************************************************************)
SpecialNames == {"help", "history", "source", ".", "sh", "bash", "zsh", "nano"}

PackageManagerNames == {"npm", "pip", "pip3", "yarn", "pnpm"}

RuntimeNames == {"python", "python3", "node", "nodejs", "js", "gcc", "cc", "g++",
                 "cpp", "java", "javac", "lua", "ruby", "go", "rust", "rustc"}

isRuntime(cmd) == cmd \in RuntimeNames

\* The file npm init writes, JSON.stringify(pkg, null, 2), as one token, and
\* what JSON.parse makes of its scripts.
PackageJson == <<"{name: my-project, version: 1.0.0, scripts: {test, start}}">>

PackageScripts ==
    [test |-> <<"echo", "Error: no test specified", "&&", "exit", "1">>,
     start |-> <<"node", "index.js">>]

IsFile(v, path) == exists(v, path) /\ v.nodes[getNode(v, path)].type = "file"

\* The category of dispatchCommand that handles a word.
Category(st, cmd) ==
    CASE cmd \in DOMAIN st.functions -> "function"
      [] cmd \in SpecialNames -> "special"
      [] HasBuiltin(cmd) -> "builtin"
      [] cmd \in PackageManagerNames -> "package"
      [] cmd = "git" -> "git"
      [] isRuntime(cmd) -> "runtime"
      [] IsFile(st.vfs, PathOfWord(cmd)) -> "file"
      [] OTHER -> "none"

expandAliases(st, input) ==
    IF input # <<>> /\ Head(input) \in DOMAIN st.aliases
    THEN st.aliases[Head(input)] \o Tail(input)
    ELSE input

\* The name a token of the form name() declares, "" when it has another form.
FunctionHead(tok) ==
    CASE tok = "f()" -> "f"
      [] tok = "echo()" -> "echo"
      [] tok = "g()" -> "g"
      [] tok = "h()" -> "h"
      [] OTHER -> ""

\* funcMatch: name() { body }
IsFunctionDefinition(input) ==
    /\ Len(input) >= 4
    /\ FunctionHead(input[1]) # ""
    /\ input[2] = "{"
    /\ Last(input) = "}"

\* The tokens of the form name=, and the name each holds.
\* A line is written with a blank between two tokens, except after name=
\* and around the tokens of an expansion: input.includes(' ').
includesBlank(input) ==
    \E k \in 2..Len(input) :
        /\ input[k - 1] \notin AssignWords \cup {"$(", "(", "+", "*"}
        /\ input[k] \notin {"(", ")", "+", "*"}

\* simpleAssign: name=value, the value without ';'
IsSimpleAssignment(input) ==
    /\ input # <<>>
    /\ Head(input) \in AssignWords
    /\ \A k \in 2..Len(input) : input[k] # ";"
    /\ ~includesBlank(input)

\* The tokens that start with '#', and the runtime a shebang names.
CommentTokens == {"#", "#!python", "#!node"}

Shebang(tok) ==
    CASE tok = "#!python" -> "python"
      [] tok = "#!node" -> "node"
      [] OTHER -> ""

\* The lines of a script that executeScript keeps: not a comment, not empty.
RECURSIVE scriptLines(_, _)
scriptLines(text, atLineStart) ==
    IF text = <<>> THEN <<>>
    ELSE IF atLineStart /\ Head(text) = "\n" THEN scriptLines(Tail(text), TRUE)
    ELSE IF atLineStart /\ Head(text) \in CommentTokens
         THEN LET nl == FirstIn(text, {"\n"})
              IN IF nl = 0 THEN <<>> ELSE scriptLines(SubSeq(text, nl + 1, Len(text)), TRUE)
    ELSE <<Head(text)>> \o scriptLines(Tail(text), Head(text) = "\n")

\* The runtimes run outside the shell; what they print is not modelled and
\* they report success.
runRuntimeCode(st, name, code) == Returns(st, 0)

executeRuntime(st, cmd, args) ==
    IF args = <<>> THEN Returns(writeln(st, <<cmd, "no input file specified">>, TRUE), 1)
    ELSE IF Len(args) >= 2 /\ Head(args) \in {"-c", "-e"}
    THEN runRuntimeCode(st, cmd, Tail(args))
    ELSE IF ~exists(st.vfs, PathOfWord(Head(args)))
    THEN Returns(writeln(st, <<cmd, Head(args), "No such file">>, TRUE), 1)
    ELSE IF readFileErr(st.vfs, PathOfWord(Head(args))) # "OK" THEN ThrowsError(st)
    ELSE runRuntimeCode(st, cmd, readFile(st.vfs, PathOfWord(Head(args))))

cmdHelp(st) == Returns(writeln(st, <<"Shazi Shell - WebAssembly POSIX Shell v1.0.0">>, FALSE), 0)

RECURSIVE historyLines(_, _)
historyLines(st, i) ==
    IF i > Len(st.history) THEN st
    ELSE historyLines(writeln(st, st.history[i], FALSE), i + 1)

cmdHistory(st) == Returns(historyLines(st, 1), 0)

npmInit(st) ==
    LET r == Call("writeFile", <<st.vfs, RelPath(<<"package.json">>), PackageJson>>)
    IN IF r.err # "OK" THEN ThrowsError(st)
       ELSE Returns(writeln(writeln(writeln([st EXCEPT !.vfs = r.v],
                        <<"Wrote to package.json:">>, FALSE), <<>>, FALSE),
                        PackageJson, FALSE), 0)

cmdPip(st, args) == Returns(writeln(st, <<"pip - Python Package Manager">>, FALSE), 0)

cmdGit(st, args) == Returns(writeln(st, <<"git - Version Control">>, FALSE), 0)


\* captureOutput: the command of a substitution, run synchronously with a
\* sink that keeps everything; only a builtin of a single stage runs, what
\* it throws is ignored, and the sink is put back.
captureOutput(st, command) ==
    LET originalOutput == st.onOutput
        st1 == NewBuffer(st, originalOutput, TRUE)
        id == FreshCap(st.caps)
        st2 == [st1 EXCEPT !.onOutput = CaptureSink(id)]
        pipes == splitByPipes(command)
        inner == IF Len(pipes) = 1 THEN Call("expandString", <<st2, pipes[1]>>)
                 ELSE [st |-> st2, text |-> <<>>]
        tok == tokenizeCommand(inner.text)
        st3 == IF Len(pipes) = 1 /\ HasBuiltin(tok.cmd)
               THEN Call("callBuiltin", <<inner.st, tok.cmd, tok.args, <<>>>>).st
               ELSE inner.st
    IN [st |-> [st3 EXCEPT !.onOutput = originalOutput], text |-> st3.caps[id].buf]

\* The words that name a variable, and the variable each names.
VariableWords == {"$i", "$j", "$u", "$x", "$y", "$USER"}

VariableOf(word) ==
    CASE word = "$i" -> "i"
      [] word = "$j" -> "j"
      [] word = "$x" -> "x"
      [] word = "$y" -> "y"
      [] word = "$USER" -> "USER"
      [] OTHER -> "u"

\* The words $0 $1 $2 $# $? of the special variables.
SpecialWords == {"$0", "$1", "$2", "$#", "$?"}

\* specialVars of expandString, for the special variables the lines name:
\* a missing argument is '', $# is max(0, scriptArgs.length - 1).
specialVars(st) ==
    [w \in SpecialWords |->
        CASE w = "$0" -> IF Len(st.scriptArgs) >= 1 THEN <<st.scriptArgs[1]>> ELSE <<"sh">>
          [] w = "$1" -> IF Len(st.scriptArgs) >= 2 THEN <<st.scriptArgs[2]>> ELSE <<>>
          [] w = "$2" -> IF Len(st.scriptArgs) >= 3 THEN <<st.scriptArgs[3]>> ELSE <<>>
          [] w = "$#" -> <<ToString(IF Len(st.scriptArgs) >= 1 THEN Len(st.scriptArgs) - 1 ELSE 0)>>
          [] OTHER -> <<ToString(st.lastExitCode)>>]

(***************************************************************************)
(* expandArithmetic (shell-parser).  An expression is a sequence of        *)
(* tokens: numbers, the operators + and *, identifiers, and whatever the   *)
(* value of a variable holds.  The expressions of the model hold no ** and *)
(* no parentheses.                                                         *)
(***************************************************************************)
NumberWords == {ToString(n) : n \in 0..MaxNumber}

ParseNumber(w) == CHOOSE n \in 0..MaxNumber : ToString(n) = w

\* The words of the model that /\b([a-zA-Z_][a-zA-Z0-9_]*)\b/ matches, and
\* those of them that are left as they are.
Identifiers ==
    {"i", "j", "u", "x", "y", "USER", "require", "true", "false", "Math", "pow", "floor",
     "ceil", "abs"}

KnownWords == {"true", "false", "Math", "pow", "floor", "ceil", "abs"}

\* The words of the model that consist of characters of the class
\* [\d\s+\-*/%().<>=!&|^~,Math.powflorceiabs] only.
SafeWords ==
    NumberWords \cup {"+", "*", "(", ")", "false", "Math", "pow", "floor", "ceil", "abs",
                      "self.close()"}

\* getVar of expandVariables: none of the model's names is a special one.
getVar(env, name) == IF name \in DOMAIN env THEN env[name] ELSE <<>>

\* expr.replace(identifier, getVar(name) || '0')
RECURSIVE substituteNames(_, _)
substituteNames(expr, env) ==
    IF expr = <<>> THEN <<>>
    ELSE (IF Head(expr) \in Identifiers \ KnownWords
          THEN (IF getVar(env, Head(expr)) = <<>> THEN <<"0">> ELSE getVar(env, Head(expr)))
          ELSE <<Head(expr)>>)
         \o substituteNames(Tail(expr), env)

\* A sum of products of numbers.
IsSum(expr) ==
    /\ Len(expr) % 2 = 1
    /\ \A k \in DOMAIN expr :
          IF k % 2 = 1 THEN expr[k] \in NumberWords ELSE expr[k] \in {"+", "*"}

RECURSIVE valueOf(_, _, _)
valueOf(expr, sum, product) ==
    IF Len(expr) = 1 THEN sum + product * ParseNumber(expr[1])
    ELSE IF expr[2] = "+"
    THEN valueOf(Tail(Tail(expr)), sum + product * ParseNumber(expr[1]), 1)
    ELSE valueOf(Tail(Tail(expr)), sum, product * ParseNumber(expr[1]))

\* String(Math.floor(Function('"use strict"; return (' + evalExpr + ')')())),
\* '0' when the call throws: a sum has its value, false is 0, Math and what
\* self.close() returns are no numbers, the other names are not defined and
\* another text is a syntax error.
evaluate(evalExpr) ==
    IF IsSum(evalExpr) THEN ToString(valueOf(evalExpr, 0, 1))
    ELSE IF evalExpr \in {<<"Math">>, <<"self.close()">>} THEN "NaN"
    ELSE "0"

\* The replacement of one $(( expr )): the value, and the text handed to
\* Function when the test of the characters lets it through.
arithmeticValue(expr, env) ==
    LET evalExpr == substituteNames(expr, env)
        safe == \A k \in DOMAIN evalExpr : evalExpr[k] \in SafeWords
    IN IF safe THEN [text |-> evaluate(evalExpr), handed |-> <<evalExpr>>]
       ELSE [text |-> "0", handed |-> <<>>]

\* A replacement that hands every expression to Function.
RECURSIVE expandArithmeticUnchecked(_, _)
expandArithmeticUnchecked(input, env) ==
    LET starts == {i \in 1..Len(input) - 4 :
                      /\ input[i] = "$(" /\ input[i + 1] = "("
                      /\ \E j \in i + 3..Len(input) - 1 : input[j] = ")" /\ input[j + 1] = ")"}
        i == CHOOSE a \in starts : \A b \in starts : a <= b
        ends == {j \in i + 3..Len(input) - 1 : input[j] = ")" /\ input[j + 1] = ")"}
        j == CHOOSE a \in ends : \A b \in ends : a <= b
        evalExpr == substituteNames(SubSeq(input, i + 2, j - 1), env)
        rest == expandArithmeticUnchecked(SubSeq(input, j + 2, Len(input)), env)
    IN IF starts = {} THEN [text |-> input, handed |-> <<>>]
       ELSE [text |-> SubSeq(input, 1, i - 1) \o <<evaluate(evalExpr)>> \o rest.text,
             handed |-> <<evalExpr>> \o rest.handed]

\* input.replace(/\$\(\((.+?)\)\)/g, ...): the leftmost $(( that a )) follows
\* after at least one token, up to the first such )).
RECURSIVE expandArithmetic(_, _)
expandArithmetic(input, env) ==
    LET starts == {i \in 1..Len(input) - 4 :
                      /\ input[i] = "$(" /\ input[i + 1] = "("
                      /\ \E j \in i + 3..Len(input) - 1 : input[j] = ")" /\ input[j + 1] = ")"}
        i == CHOOSE a \in starts : \A b \in starts : a <= b
        ends == {j \in i + 3..Len(input) - 1 : input[j] = ")" /\ input[j + 1] = ")"}
        j == CHOOSE a \in ends : \A b \in ends : a <= b
        value == arithmeticValue(SubSeq(input, i + 2, j - 1), env)
        rest == expandArithmetic(SubSeq(input, j + 2, Len(input)), env)
    IN IF starts = {} THEN [text |-> input, handed |-> <<>>]
       ELSE [text |-> SubSeq(input, 1, i - 1) \o <<value.text>> \o rest.text,
             handed |-> value.handed \o rest.handed]

\* The loop of expandVariables: a word that names a variable is replaced
\* by the variable's value, by nothing when the variable is not set.
RECURSIVE expandLoop(_, _, _)
expandLoop(input, env, special) ==
    IF input = <<>> THEN <<>>
    ELSE (IF Head(input) \in SpecialWords THEN special[Head(input)]
          ELSE IF Head(input) \notin VariableWords THEN <<Head(input)>>
          ELSE IF VariableOf(Head(input)) \in DOMAIN env THEN env[VariableOf(Head(input))]
          ELSE <<>>)
         \o expandLoop(Tail(input), env, special)

\* expandVariables: the arithmetic first, then the variables.
expandVariables(input, env, special) ==
    expandLoop(expandArithmetic(input, env).text, env, special)

\* The replacements of expandString: the first $( ... ) is replaced by the
\* trimmed output of its command, then the next one.
substituteCommands(st, input) ==
    LET open == FirstIn(input, {"$("})
        rest == SubSeq(input, open + 1, Len(input))
        close == FirstIn(rest, {")"})
    IN IF open = 0 \/ close = 0 THEN [st |-> st, text |-> input]
       ELSE IF close = 1
       THEN LET after == Call("substituteCommands", <<st, rest>>)
            IN [st |-> after.st, text |-> SubSeq(input, 1, open) \o after.text]
       ELSE LET c == Call("captureOutput", <<st, SubSeq(rest, 1, close - 1)>>)
                after == Call("substituteCommands", <<c.st, SubSeq(rest, close + 1, Len(rest))>>)
            IN [st |-> after.st,
                text |-> SubSeq(input, 1, open - 1) \o trim(c.text) \o after.text]

\* The token of the backquote character, which a string of the model
\* cannot hold.
Backtick == "backquote"

\* The second replacement of expandString: backquote ... backquote
substituteBackticks(st, input) ==
    LET open == FirstIn(input, {Backtick})
        rest == SubSeq(input, open + 1, Len(input))
        close == FirstIn(rest, {Backtick})
    IN IF open = 0 \/ close = 0 THEN [st |-> st, text |-> input]
       ELSE IF close = 1
       THEN LET after == Call("substituteBackticks", <<st, rest>>)
            IN [st |-> after.st, text |-> SubSeq(input, 1, open - 1) \o after.text]
       ELSE LET c == Call("captureOutput", <<st, SubSeq(rest, 1, close - 1)>>)
                after == Call("substituteBackticks", <<c.st, SubSeq(rest, close + 1, Len(rest))>>)
            IN [st |-> after.st,
                text |-> SubSeq(input, 1, open - 1) \o trim(c.text) \o after.text]

\* expandString: the command substitutions, then the variables.
expandString(st, input) ==
    LET dollars == Call("substituteCommands", <<st, input>>)
        replaced == Call("substituteBackticks", <<dollars.st, dollars.text>>)
    IN [st |-> replaced.st,
        text |-> expandVariables(replaced.text, allVars(replaced.st), specialVars(replaced.st))]

\* The loop of executeSimpleCommand over the redirections.  buffer is the
\* frame's redirectedOutput (0 before the first > or >>).
\* A loop that leaves the capturing sink in place when < fails.
setupRedirectionsKeepSink(st, redirects, originalOutput, f) ==
    IF redirects = <<>> THEN [f EXCEPT !.st = st]
    ELSE LET redir == Head(redirects)
         IN IF redir.type \in {">", ">>"}
            THEN LET st1 == IF f.buffer = 0 THEN NewBuffer(st, originalOutput, FALSE) ELSE st
                     id == IF f.buffer = 0 THEN FreshCap(st.caps) ELSE f.buffer
                 IN Call("setupRedirections", <<[st1 EXCEPT !.onOutput = CaptureSink(id)],
                                      Tail(redirects), originalOutput,
                                      [f EXCEPT !.buffer = id,
                                                !.redirectFile = redir.target,
                                                !.appendMode = (redir.type = ">>")]>>)
            ELSE IF redir.type # "<"
            THEN Call("setupRedirections", <<st, Tail(redirects), originalOutput, f>>)
            ELSE IF readFileErr(st.vfs, PathOfWord(redir.target)) = "OK"
            THEN Call("setupRedirections", <<st, Tail(redirects), originalOutput,
                     [f EXCEPT !.stdin = readFile(st.vfs, PathOfWord(redir.target))]>>)
            ELSE [f EXCEPT !.failed = TRUE,
                           !.st = writeln(st, <<"shazi-shell:", redir.target, "No such file">>, TRUE)]

setupRedirections(st, redirects, originalOutput, f) ==
    IF redirects = <<>> THEN [f EXCEPT !.st = st]
    ELSE LET redir == Head(redirects)
         IN IF redir.type \in {">", ">>"}
            THEN LET st1 == IF f.buffer = 0 THEN NewBuffer(st, originalOutput, FALSE) ELSE st
                     id == IF f.buffer = 0 THEN FreshCap(st.caps) ELSE f.buffer
                 IN Call("setupRedirections", <<[st1 EXCEPT !.onOutput = CaptureSink(id)],
                                      Tail(redirects), originalOutput,
                                      [f EXCEPT !.buffer = id,
                                                !.redirectFile = redir.target,
                                                !.appendMode = (redir.type = ">>")]>>)
            ELSE IF redir.type # "<"
            THEN Call("setupRedirections", <<st, Tail(redirects), originalOutput, f>>)
            ELSE IF readFileErr(st.vfs, PathOfWord(redir.target)) = "OK"
            THEN Call("setupRedirections", <<st, Tail(redirects), originalOutput,
                     [f EXCEPT !.stdin = readFile(st.vfs, PathOfWord(redir.target))]>>)
            ELSE [f EXCEPT !.failed = TRUE,
                           !.st = writeln([st EXCEPT !.onOutput = originalOutput],
                                          <<"shazi-shell:", redir.target, "No such file">>, TRUE)]

\* The end of executeSimpleCommand: the captured text goes to the file.
\* A write of the captured text that always replaces the file.
writeRedirectedOverwrite(st, f, originalOutput, exitCode) ==
    IF f.redirectFile = "" THEN Returns(st, exitCode)
    ELSE LET st1 == [st EXCEPT !.onOutput = originalOutput]
             redirectedOutput == st.caps[f.buffer].buf
             r == Call("writeFile", <<st.vfs, PathOfWord(f.redirectFile), redirectedOutput>>)
         IN IF r.err = "OK"
            THEN Returns(Logged([st1 EXCEPT !.vfs = r.v],
                                Event("flush", f.redirectFile, redirectedOutput,
                                      f.appendMode, f.buffer, exitCode)), exitCode)
            ELSE Returns(writeln(st1, <<"shazi-shell:", f.redirectFile, r.err>>, TRUE), 1)

writeRedirected(st, f, originalOutput, exitCode) ==
    IF f.redirectFile = "" THEN Returns(st, exitCode)
    ELSE LET st1 == [st EXCEPT !.onOutput = originalOutput]
             path == PathOfWord(f.redirectFile)
             redirectedOutput == st.caps[f.buffer].buf
             append == f.appendMode /\ exists(st.vfs, path)
             r == IF append /\ readFileErr(st.vfs, path) # "OK"
                  THEN Ret(st.vfs, readFileErr(st.vfs, path))
                  ELSE Call("writeFile", <<st.vfs, path,
                                 IF append THEN readFile(st.vfs, path) \o redirectedOutput
                                 ELSE redirectedOutput>>)
         IN IF r.err = "OK"
            THEN Returns(Logged([st1 EXCEPT !.vfs = r.v],
                                Event("flush", f.redirectFile, redirectedOutput,
                                      f.appendMode, f.buffer, exitCode)), exitCode)
            ELSE Returns(writeln(st1, <<"shazi-shell:", f.redirectFile, r.err>>, TRUE), 1)

executeSimpleCommand(st, input, stdin, depth) ==
    LET tok == tokenizeCommand(input)
        originalOutput == st.onOutput
        f == Call("setupRedirections", <<Logged(st, Event("stage", tok.cmd, stdin, FALSE, 0, 0)),
                               tok.redirects, originalOutput,
                               [st |-> st, buffer |-> 0, redirectFile |-> "",
                                appendMode |-> FALSE, stdin |-> stdin, failed |-> FALSE]>>)
    IN IF tok.cmd = "" THEN Returns(st, 0)
       ELSE IF f.failed
       THEN Returns(Logged(f.st, Event("stage-end", tok.cmd, <<>>, TRUE, 0, 1)), 1)
       ELSE LET d == Call("dispatchCommand", <<f.st, tok.cmd, tok.args, f.stdin, depth>>)
            IN IF d.thrown = "exit" THEN d
               ELSE LET caught == IF d.thrown = "error"
                                  THEN Returns(writeln(d.st, <<"shazi-shell:", tok.cmd, "error">>, TRUE), 1)
                                  ELSE d
                        r == Call("writeRedirected", <<caught.st, f, originalOutput, caught.code>>)
                    IN Returns(Logged(r.st, Event("stage-end", tok.cmd, <<>>,
                                                  d.thrown = "error", 0, r.code)), r.code)

\* A pipeline that captures the output of a stage and does not hand it on.
pipelineLoopNoStdin(st, commands, i, pipeInput, exitCode, depth) ==
    IF i > Len(commands) THEN Returns(st, exitCode)
    ELSE IF i < Len(commands)
    THEN LET originalOutput == st.onOutput
             id == FreshCap(st.caps)
             st1 == [NewBuffer(st, originalOutput, FALSE) EXCEPT !.onOutput = CaptureSink(id)]
             r == Call("executeSimpleCommand", <<st1, commands[i], pipeInput, depth>>)
         IN IF r.thrown # "none" THEN r
            ELSE Call("pipelineLoop", <<[r.st EXCEPT !.onOutput = originalOutput], commands, i + 1,
                              pipeInput, r.code, depth>>)
    ELSE LET r == Call("executeSimpleCommand", <<st, commands[i], pipeInput, depth>>)
         IN IF r.thrown # "none" THEN r
            ELSE Call("pipelineLoop", <<r.st, commands, i + 1, pipeInput, r.code, depth>>)

pipelineLoop(st, commands, i, pipeInput, exitCode, depth) ==
    IF i > Len(commands) THEN Returns(st, exitCode)
    ELSE IF i < Len(commands)
    THEN LET originalOutput == st.onOutput
             id == FreshCap(st.caps)
             st1 == [NewBuffer(st, originalOutput, FALSE) EXCEPT !.onOutput = CaptureSink(id)]
             r == Call("executeSimpleCommand", <<st1, commands[i], pipeInput, depth>>)
         IN IF r.thrown # "none" THEN r
            ELSE Call("pipelineLoop", <<[r.st EXCEPT !.onOutput = originalOutput], commands, i + 1,
                              r.st.caps[id].buf, r.code, depth>>)
    ELSE LET r == Call("executeSimpleCommand", <<st, commands[i], pipeInput, depth>>)
         IN IF r.thrown # "none" THEN r
            ELSE Call("pipelineLoop", <<r.st, commands, i + 1, pipeInput, r.code, depth>>)

executePipeline(st, input, depth) ==
    LET expanded == Call("expandString", <<st, input>>)
        commands == splitByPipes(expanded.text)
    IN IF Len(commands) = 0 THEN Returns(expanded.st, 0)
       ELSE IF Len(commands) = 1
       THEN Call("executeSimpleCommand", <<expanded.st, commands[1], <<>>, depth>>)
       ELSE Call("pipelineLoop", <<expanded.st, commands, 1, <<>>, 0, depth>>)

\* The separators [;\n] of the regular expressions of the control
\* structures, and the words that \w+ does not match.
Separators == {";", "\n"}

IsName(word) ==
    word \notin Separators \cup Operators \cup RedirectTypes \cup VariableWords
                 \cup {"|", "$(", ")", ";;", "*"}

\* What (.+?) captures between  do [;]  and  [;] done  (or then and fi): a
\* separator at either end is left out when something else remains.
bodyOf(between) ==
    LET b1 == IF Len(between) > 1 /\ Head(between) \in Separators THEN Tail(between)
              ELSE between
    IN IF Len(b1) > 1 /\ Last(b1) \in Separators THEN Front(b1) ELSE b1

\* The parts of  for VAR in ITEMS ; do [;] BODY [;] done  that the regular
\* expression of executeFor captures: the items end at the first separator
\* that a do follows.
forParts(content) ==
    LET doAt == {i \in 5..(Len(content) - 1) :
                    content[i] \in Separators /\ content[i + 1] = "do"}
        d == CHOOSE i \in doAt : \A j \in doAt : i <= j
    IN IF Len(content) < 8 \/ content[1] # "for" \/ ~IsName(content[2]) \/ content[3] # "in"
          \/ Last(content) # "done" \/ doAt = {}
       THEN [match |-> FALSE, varName |-> "", items |-> <<>>, body |-> <<>>]
       ELSE IF SubSeq(content, d + 2, Len(content) - 1) = <<>>
       THEN [match |-> FALSE, varName |-> "", items |-> <<>>, body |-> <<>>]
       ELSE [match |-> TRUE, varName |-> content[2],
             items |-> SubSeq(content, 4, d - 1),
             body |-> bodyOf(SubSeq(content, d + 2, Len(content) - 1))]

\* split(/\s+/).filter(Boolean): the words of a text.
words(text) == SelectSeq(text, LAMBDA w : w # "\n")

\* A loop that runs the body before it binds the variable.
forLoopBindsAfter(st, varName, items, body, k, exitCode, depth) ==
    IF items = <<>> THEN Returns(st, exitCode)
    ELSE LET r == Call("execute", <<st, body, depth>>)
         IN IF r.thrown # "none" THEN r
            ELSE Call("forLoop", <<[r.st EXCEPT !.localVars = MapSet(@, varName, <<Head(items)>>)],
                                   varName, Tail(items), body, k + 1, r.code, depth>>)

\* The loop of executeFor over the items; k counts the items taken.
forLoop(st, varName, items, body, k, exitCode, depth) ==
    IF items = <<>> THEN Returns(st, exitCode)
    ELSE LET bound == [st EXCEPT !.localVars = MapSet(@, varName, <<Head(items)>>)]
             r == Call("execute", <<bound, body, depth>>)
         IN IF r.thrown # "none" THEN r
            ELSE Call("forLoop", <<r.st, varName, Tail(items), body, k + 1, r.code, depth>>)

executeFor(st, content, depth) ==
    LET m == Call("forParts", <<content>>)
    IN IF ~m.match
       THEN Returns(writeln(st, <<"shazi-shell: syntax error in for loop">>, TRUE), 2)
       ELSE LET expanded == Call("expandString", <<st, m.items>>)
            IN Call("forLoop", <<expanded.st, m.varName, words(expanded.text), m.body,
                                 0, 0, depth>>)

\* The cap of executeWhile and executeUntil on the runs of the body.
maxIterations == 10000

\* The parts of  while COND ; do [;] BODY [;] done  (until likewise) that the
\* regular expression captures: the condition ends at the first separator
\* that a do follows.
whileParts(content, keyword) ==
    LET doAt == {i \in 3..(Len(content) - 1) :
                    content[i] \in Separators /\ content[i + 1] = "do"}
        d == CHOOSE i \in doAt : \A j \in doAt : i <= j
    IN IF Len(content) < 6 \/ content[1] # keyword \/ Last(content) # "done" \/ doAt = {}
       THEN [match |-> FALSE, cond |-> <<>>, body |-> <<>>]
       ELSE IF SubSeq(content, d + 2, Len(content) - 1) = <<>>
       THEN [match |-> FALSE, cond |-> <<>>, body |-> <<>>]
       ELSE [match |-> TRUE, cond |-> SubSeq(content, 2, d - 1),
             body |-> bodyOf(SubSeq(content, d + 2, Len(content) - 1))]

\* An iteration that takes until for while.
whileIterationAlways(st, cond, body, until, depth) ==
    LET c == Call("execute", <<st, cond, depth>>)
    IN IF c.thrown # "none" \/ c.code # 0
       THEN [continue |-> FALSE, r |-> c]
       ELSE LET b == Call("execute", <<c.st, body, depth>>)
            IN [continue |-> b.thrown = "none", r |-> b]

\* One turn of the loop of executeWhile (executeUntil when until): the
\* condition and, unless it breaks the loop, the body.  r is what the body
\* returned, or what the condition returned or threw.
whileIteration(st, cond, body, until, depth) ==
    LET c == Call("execute", <<st, cond, depth>>)
    IN IF c.thrown # "none" \/ (IF until THEN c.code = 0 ELSE c.code # 0)
       THEN [continue |-> FALSE, r |-> c]
       ELSE LET b == Call("execute", <<c.st, body, depth>>)
            IN [continue |-> b.thrown = "none", r |-> b]

whileLoop(st, cond, body, until, iterations, exitCode, depth) ==
    IF iterations >= maxIterations THEN Returns(st, exitCode)
    ELSE LET it == Call("whileIteration", <<st, cond, body, until, depth>>)
         IN IF it.continue
            THEN Call("whileLoop", <<it.r.st, cond, body, until, iterations + 1, it.r.code,
                                     depth>>)
            ELSE IF it.r.thrown # "none" THEN it.r
            ELSE Returns(it.r.st, exitCode)

executeWhile(st, content, depth) ==
    LET m == Call("whileParts", <<content, "while">>)
    IN IF ~m.match
       THEN Returns(writeln(st, <<"shazi-shell: syntax error in while loop">>, TRUE), 2)
       ELSE Call("whileLoop", <<st, m.cond, m.body, FALSE, 0, 0, depth>>)

executeUntil(st, content, depth) ==
    LET m == Call("whileParts", <<content, "until">>)
    IN IF ~m.match
       THEN Returns(writeln(st, <<"shazi-shell: syntax error in until loop">>, TRUE), 2)
       ELSE Call("whileLoop", <<st, m.cond, m.body, TRUE, 0, 0, depth>>)

\* String.prototype.split: the parts of a text between the occurrences of
\* a separator.
RECURSIVE split(_, _)
split(text, separator) ==
    LET at == FirstIn(text, {separator})
    IN IF at = 0 THEN <<text>>
       ELSE <<SubSeq(text, 1, at - 1)>> \o split(SubSeq(text, at + 1, Len(text)), separator)

\* The parts of an arm  PATTERN ) BODY  that the regular expression of
\* executeCase captures: the pattern ends at the first ')' after its first
\* word.
caseParts(c) ==
    LET closeAt == {i \in 2..Len(c) : c[i] = ")"}
        k == CHOOSE i \in closeAt : \A j \in closeAt : i <= j
    IN IF closeAt = {} THEN [match |-> FALSE, patterns |-> <<>>, body |-> <<>>]
       ELSE [match |-> TRUE, patterns |-> split(SubSeq(c, 1, k - 1), "|"),
             body |-> SubSeq(c, k + 1, Len(c))]

\* An arm matches when one of its patterns is * or the expanded word.
armMatches(patterns, expandedWord) ==
    \E i \in DOMAIN patterns : trim(patterns[i]) = <<"*">> \/ trim(patterns[i]) = expandedWord

\* A loop over the arms that takes the last arm that matches.
caseLoopLast(st, cases, expandedWord, depth) ==
    LET hits == {i \in DOMAIN cases :
                    /\ caseParts(trim(cases[i])).match
                    /\ armMatches(caseParts(trim(cases[i])).patterns, expandedWord)}
    IN IF hits = {} THEN Returns(st, 0)
       ELSE Call("execute",
                 <<st, trim(caseParts(trim(cases[CHOOSE i \in hits : \A j \in hits : j <= i])).body),
                   depth>>)

\* The loop of executeCase over the arms.
caseLoop(st, cases, expandedWord, depth) ==
    IF cases = <<>> THEN Returns(st, 0)
    ELSE LET caseMatch == caseParts(trim(Head(cases)))
         IN IF caseMatch.match /\ armMatches(caseMatch.patterns, expandedWord)
            THEN Call("execute", <<st, trim(caseMatch.body), depth>>)
            ELSE Call("caseLoop", <<st, Tail(cases), expandedWord, depth>>)

executeCase(st, content, depth) ==
    IF Len(content) < 5 \/ content[1] # "case" \/ content[2] = "\n" \/ content[3] # "in"
       \/ Last(content) # "esac"
    THEN Returns(writeln(st, <<"shazi-shell: syntax error in case statement">>, TRUE), 2)
    ELSE LET expanded == Call("expandString", <<st, <<content[2]>>>>)
             cases == SelectSeq(split(SubSeq(content, 4, Len(content) - 1), ";;"),
                                LAMBDA c : c # <<>>)
         IN Call("caseLoop", <<expanded.st, cases, expanded.text, depth>>)

\* The parts of  if COND ; then BODY [; else BODY] [;] fi  that the regular
\* expression of executeIf captures: the condition ends at the first
\* separator that a then follows, the then-body at the first separator that
\* an else follows.
ifParts(content) ==
    LET thenAt == {i \in 3..(Len(content) - 1) :
                      content[i] \in {";", "\n"} /\ content[i + 1] = "then"}
        t == CHOOSE i \in thenAt : \A j \in thenAt : i <= j
        body0 == SubSeq(content, t + 2, Len(content) - 1)
        body1 == IF body0 # <<>> /\ Head(body0) \in {";", "\n"} THEN Tail(body0) ELSE body0
        elseAt == {i \in 2..(Len(body1) - 1) :
                      body1[i] \in {";", "\n"} /\ body1[i + 1] = "else"}
        e == CHOOSE i \in elseAt : \A j \in elseAt : i <= j
        else0 == SubSeq(body1, e + 2, Len(body1))
        else1 == IF else0 # <<>> /\ Head(else0) \in {";", "\n"} THEN Tail(else0) ELSE else0
        strip(b) == IF Len(b) > 1 /\ Last(b) \in {";", "\n"} THEN Front(b) ELSE b
    IN IF Len(content) < 2 \/ Head(content) # "if" \/ Last(content) # "fi" \/ thenAt = {}
          \/ body1 = <<>>
       THEN [match |-> FALSE, cond |-> <<>>, thenBody |-> <<>>, elseBody |-> <<>>]
       ELSE IF elseAt # {} /\ strip(else1) # <<>>
       THEN [match |-> TRUE, cond |-> SubSeq(content, 2, t - 1),
             thenBody |-> SubSeq(body1, 1, e - 1), elseBody |-> strip(else1)]
       ELSE [match |-> TRUE, cond |-> SubSeq(content, 2, t - 1),
             thenBody |-> strip(body1), elseBody |-> <<>>]

executeIf(st, content, depth) ==
    LET m == Call("ifParts", <<content>>)
    IN IF ~m.match
       THEN Returns(writeln(st, <<"shazi-shell: syntax error in if statement">>, TRUE), 2)
       ELSE LET condResult == Call("execute", <<st, m.cond, depth>>)
            IN IF condResult.thrown # "none" THEN condResult
               ELSE IF condResult.code = 0 THEN Call("execute", <<condResult.st, m.thenBody, depth>>)
               ELSE IF m.elseBody # <<>> THEN Call("execute", <<condResult.st, m.elseBody, depth>>)
               ELSE Returns(condResult.st, 0)

executeScript(st, path, args, depth) ==
    IF readFileErr(st.vfs, PathOfWord(path)) # "OK"
    THEN Returns(writeln(st, <<"shazi-shell:", path, readFileErr(st.vfs, PathOfWord(path))>>, TRUE), 1)
    ELSE LET content == readFile(st.vfs, PathOfWord(path))
             savedArgs == st.scriptArgs
             fullScript == scriptLines(content, TRUE)
             r == IF content # <<>> /\ Shebang(Head(content)) # ""
                  THEN Call("executeRuntime", <<st, Shebang(Head(content)), <<path>> \o args>>)
                  ELSE Call("execute", <<[st EXCEPT !.scriptArgs = <<path>> \o args], fullScript, depth>>)
         IN IF r.thrown # "none"
            THEN \* catch (error): an exit request has no message
                 Returns(writeln(r.st, <<"shazi-shell:", path,
                                         IF r.thrown = "exit" THEN "undefined" ELSE "error">>,
                                 TRUE), 1)
            ELSE IF content # <<>> /\ Shebang(Head(content)) # "" THEN r
            ELSE Returns([r.st EXCEPT !.scriptArgs = savedArgs], r.code)

cmdShell(st, args, depth) ==
    IF args = <<>>
    THEN Returns(writeln(writeln(st, <<"shazi-shell 1.0.0 - WebAssembly POSIX Shell">>, FALSE),
                         <<"Type \"exit\" to return to parent shell">>, FALSE), 0)
    ELSE IF Head(args) = "-c" /\ Len(args) > 1 THEN Call("execute", <<st, Tail(args), depth>>)
    ELSE IF exists(st.vfs, PathOfWord(Head(args)))
    THEN IF IsFile(st.vfs, PathOfWord(Head(args)))
         THEN Call("executeScript", <<st, Head(args), Tail(args), depth>>)
         ELSE Returns(writeln(st, <<"sh:", Head(args), "Is a directory">>, TRUE), 1)
    ELSE Returns(writeln(st, <<"sh:", Head(args), "No such file or directory">>, TRUE), 127)

cmdSource(st, args, depth) ==
    IF args = <<>> THEN Returns(writeln(st, <<"source: filename argument required">>, TRUE), 1)
    ELSE IF ~exists(st.vfs, PathOfWord(Head(args)))
    THEN Returns(writeln(st, <<"source:", Head(args), "No such file">>, TRUE), 1)
    ELSE IF readFileErr(st.vfs, PathOfWord(Head(args))) # "OK" THEN ThrowsError(st)
    ELSE Call("execute", <<st, readFile(st.vfs, PathOfWord(Head(args))), depth>>)

npmRun(st, args, depth) ==
    IF args = <<>>
    THEN IF exists(st.vfs, RelPath(<<"package.json">>))
         THEN IF readFileErr(st.vfs, RelPath(<<"package.json">>)) # "OK"
                 \/ readFile(st.vfs, RelPath(<<"package.json">>)) # PackageJson
              THEN ThrowsError(st)
              ELSE Returns(writeln(st, <<"Scripts available:", "test", "start">>, FALSE), 0)
         ELSE Returns(writeln(st, <<"npm ERR! No package.json found">>, TRUE), 1)
    ELSE IF readFileErr(st.vfs, RelPath(<<"package.json">>)) # "OK"
            \/ readFile(st.vfs, RelPath(<<"package.json">>)) # PackageJson
    THEN Returns(writeln(st, <<"npm ERR! No package.json found">>, TRUE), 1)
    ELSE IF Head(args) \notin DOMAIN PackageScripts
    THEN Returns(writeln(writeln(st, <<"npm ERR! Missing script:", Head(args)>>, TRUE),
                         <<"Available scripts:", "test", "start">>, FALSE), 1)
    ELSE LET st1 == writeln(writeln(st, <<"> my-project@1.0.0", Head(args)>>, FALSE),
                            <<">">> \o PackageScripts[Head(args)], FALSE)
             r == Call("execute", <<st1, PackageScripts[Head(args)], depth>>)
         IN IF r.thrown # "none"
            THEN Returns(writeln(r.st, <<"npm ERR! No package.json found">>, TRUE), 1)
            ELSE r

cmdNpm(st, args, depth) ==
    LET subcmd == IF args = <<>> THEN "help" ELSE Head(args)
    IN CASE subcmd = "init" -> Call("npmInit", <<st>>)
         [] subcmd = "run" -> Call("npmRun", <<st, Tail(args), depth>>)
         [] subcmd = "test" -> Call("npmRun", <<st, <<"test">>, depth>>)
         [] subcmd = "start" -> Call("npmRun", <<st, <<"start">>, depth>>)
         [] subcmd \in {"version", "-v", "--version"} ->
                Returns(writeln(st, <<"10.2.0">>, FALSE), 0)
         [] OTHER -> Returns(writeln(st, <<"npm - Node Package Manager (WebAssembly)">>, FALSE), 0)

(***************************************************************************)
(* The line editor of nano (shell.ts).  The buffer is a sequence of lines, *)
(* each a sequence of tokens.                                              *)
(***************************************************************************)
\* The editor state of a new shell; a filename of null is "".
NoEditor == [active |-> FALSE, filename |-> "", buffer |-> <<>>, modified |-> FALSE]

RECURSIVE join(_, _)
join(parts, separator) ==
    IF parts = <<>> THEN <<>>
    ELSE IF Len(parts) = 1 THEN parts[1]
    ELSE parts[1] \o <<separator>> \o join(Tail(parts), separator)

\* The buffer written line by line, each after its number.
RECURSIVE showBuffer(_, _, _)
showBuffer(st, buffer, i) ==
    IF i > Len(buffer) THEN st
    ELSE showBuffer(writeln(st, <<ToString(i), ":">> \o buffer[i], FALSE), buffer, i + 1)

\* handleReplStart and handleReplEnd of the worker, the callbacks the shell
\* was made with.
onReplStart(st, runtime, prompt) ==
    [st EXCEPT !.posted = @ \o <<Message("replActive", <<runtime>>, 0),
                                 Message("prompt", <<prompt>>, 0)>>]

onReplEnd(st) == [st EXCEPT !.posted = Append(@, Message("replExit", <<>>, 0))]

startEditor(st, args) ==
    LET filename == IF args = <<>> THEN "" ELSE Head(args)
        found == filename # "" /\ exists(st.vfs, PathOfWord(filename))
        opened == found /\ readFileErr(st.vfs, PathOfWord(filename)) = "OK"
        buffer == IF opened THEN split(readFile(st.vfs, PathOfWord(filename)), "\n")
                  ELSE <<>>
        st1 == [st EXCEPT !.editorState = [active |-> TRUE, filename |-> filename,
                                           buffer |-> buffer, modified |-> FALSE]]
        st2 == IF found /\ ~opened
               THEN writeln(st1, <<"nano: could not open", filename>>, TRUE)
               ELSE st1
        st3 == onReplStart(st2, "editor", "nano> ")
        st4 == writeln(writeln(st3, <<"\n", "GNU nano (simulated) - editing",
                                      IF filename = "" THEN "<untitled>" ELSE filename>>,
                               FALSE),
                       <<"Type .help for commands: .save .exit .show .help", "\n",
                         "Enter text lines, press Enter to append.">>, FALSE)
    IN Returns(showBuffer(st4, buffer, 1), 0)

ExitWords == {<<".exit">>, <<":q">>, <<"exit">>, <<"^X">>}

SaveWords == {<<".save">>, <<":w">>, <<"^O">>}

executeEditorInput(st, input) ==
    LET ed == st.editorState
        trimmed == trim(input)
        saved == writeFile(st.vfs, PathOfWord(ed.filename), join(ed.buffer, "\n"))
    IN IF ~ed.active THEN Returns(st, 1)
       ELSE IF trimmed \in ExitWords
       THEN LET st1 == IF ed.modified /\ ed.filename # ""
                       THEN IF saved.err = "OK"
                            THEN writeln([st EXCEPT !.vfs = saved.v],
                                         <<"Wrote", ed.filename>>, FALSE)
                            ELSE writeln(st, <<"Error saving file:", saved.err>>, TRUE)
                       ELSE st
            IN Returns(onReplEnd([st1 EXCEPT !.editorState = NoEditor]), 0)
       ELSE IF trimmed \in SaveWords
       THEN IF ed.filename = ""
            THEN Returns(writeln(st, <<"No filename specified.">>, TRUE), 1)
            ELSE IF saved.err = "OK"
            THEN Returns(writeln([st EXCEPT !.vfs = saved.v, !.editorState.modified = FALSE],
                                 <<"Saved", ed.filename>>, FALSE), 0)
            ELSE Returns(writeln(st, <<"Error saving file:", saved.err>>, TRUE), 1)
       ELSE IF trimmed = <<".show">> THEN Returns(showBuffer(st, ed.buffer, 1), 0)
       ELSE IF trimmed \in {<<".help">>, <<"^G">>}
       THEN Returns(writeln(st, <<"nano (simulated) commands:">>, FALSE), 0)
       ELSE Returns([st EXCEPT !.editorState.buffer = Append(@, input),
                               !.editorState.modified = TRUE], 0)

\* No runtime session is started in the model, so replState is as the
\* constructor leaves it: not active, with no session.
isInRepl(sh) == FALSE \/ sh.editorState.active

\* executeReplInput returns at once when replState.session is null.
executeReplInput(st, input) == st

\* handleReplInput of the worker; getReplPrompt is '> ' without a session.
handleReplInput(st, input) ==
    IF ~isInRepl(st)
    THEN [st EXCEPT !.posted = Append(@, Message("error", <<"Not in REPL mode">>, 0))]
    ELSE LET st1 == executeReplInput(st, input)
         IN IF isInRepl(st1)
            THEN [st1 EXCEPT !.posted = Append(@, Message("prompt", <<"> ">>, 0))]
            ELSE st1

dispatchCommand(st, cmd, args, stdin, depth) ==
    LET category == Category(st, cmd)
        st1 == Logged(st, Event("dispatch", cmd, <<category>>, FALSE, 0, 0))
    IN CASE category = "function" ->
              LET savedArgs == st1.scriptArgs
                  result == Call("execute", <<[st1 EXCEPT !.scriptArgs = <<cmd>> \o args],
                                    st1.functions[cmd], depth>>)
              IN IF result.thrown # "none" THEN result
                 ELSE Returns([result.st EXCEPT !.scriptArgs = savedArgs], result.code)
         [] category = "special" ->
              (CASE cmd = "help" -> cmdHelp(st1)
                 [] cmd = "history" -> cmdHistory(st1)
                 [] cmd \in {"source", "."} -> Call("cmdSource", <<st1, args, depth>>)
                 [] cmd = "nano" -> startEditor(st1, args)
                 [] OTHER -> Call("cmdShell", <<st1, args, depth>>))
         [] category = "builtin" -> Call("callBuiltin", <<st1, cmd, args, stdin>>)
         [] category = "package" ->
              IF cmd = "npm" THEN Call("cmdNpm", <<st1, args, depth>>) ELSE cmdPip(st1, args)
         [] category = "git" -> cmdGit(st1, args)
         [] category = "runtime" -> Call("executeRuntime", <<st1, cmd, args>>)
         [] category = "file" -> Call("executeScript", <<st1, cmd, args, depth>>)
         [] OTHER -> Returns(writeln(st1, <<"shazi-shell:", cmd, "command not found">>, TRUE), 127)

executeControlStructure(st, type, content, depth) ==
    CASE type = "for" -> Call("executeFor", <<st, content, depth>>)
      [] type = "while" -> Call("executeWhile", <<st, content, depth>>)
      [] type = "until" -> Call("executeUntil", <<st, content, depth>>)
      [] type = "if" -> Call("executeIf", <<st, content, depth>>)
      [] type = "case" -> Call("executeCase", <<st, content, depth>>)
      [] OTHER -> Returns(st, 1)

\* The loop of execute over the operations; exitCode is the exit code of the
\* last one that ran.
\* A loop that runs every operation, whatever the operator before it.
executeOperationsAll(st, operations, i, exitCode, depth) ==
    IF i > Len(operations) THEN Returns(st, exitCode)
    ELSE LET op == operations[i]
             ctrl == extractControlStructure(op.command)
             st1 == Logged(st, Event("segment", "", op.command, FALSE, i, 0))
             r == IF ctrl.found
                  THEN Call("executeControlStructure", <<st1, ctrl.type, ctrl.content, depth>>)
                  ELSE Call("executePipeline", <<st1, op.command, depth>>)
         IN IF r.thrown # "none" THEN r
            ELSE Call("executeOperations", <<
                     Logged([r.st EXCEPT !.lastExitCode = r.code],
                            Event("segment-end", "", op.command, FALSE, i, r.code)),
                     operations, i + 1, r.code, depth>>)

\* A loop that leaves lastExitCode as it is.
executeOperationsKeepStatus(st, operations, i, exitCode, depth) ==
    IF i > Len(operations) THEN Returns(st, exitCode)
    ELSE IF i > 1 /\ (\/ operations[i - 1].operator = "&&" /\ exitCode # 0
                      \/ operations[i - 1].operator = "||" /\ exitCode = 0)
    THEN Call("executeOperations", <<st, operations, i + 1, exitCode, depth>>)
    ELSE LET op == operations[i]
             ctrl == extractControlStructure(op.command)
             st1 == Logged(st, Event("segment", "", op.command, FALSE, i, 0))
             r == IF ctrl.found
                  THEN Call("executeControlStructure", <<st1, ctrl.type, ctrl.content, depth>>)
                  ELSE Call("executePipeline", <<st1, op.command, depth>>)
         IN IF r.thrown # "none" THEN r
            ELSE Call("executeOperations", <<
                     Logged(r.st, Event("segment-end", "", op.command, FALSE, i, r.code)),
                     operations, i + 1, r.code, depth>>)

executeOperations(st, operations, i, exitCode, depth) ==
    IF i > Len(operations) THEN Returns(st, exitCode)
    ELSE IF i > 1 /\ (\/ operations[i - 1].operator = "&&" /\ exitCode # 0
                      \/ operations[i - 1].operator = "||" /\ exitCode = 0)
    THEN Call("executeOperations", <<st, operations, i + 1, exitCode, depth>>)
    ELSE LET op == operations[i]
             ctrl == extractControlStructure(op.command)
             st1 == Logged(st, Event("segment", "", op.command, FALSE, i, 0))
             r == IF ctrl.found
                  THEN Call("executeControlStructure", <<st1, ctrl.type, ctrl.content, depth>>)
                  ELSE Call("executePipeline", <<st1, op.command, depth>>)
         IN IF r.thrown # "none" THEN r
            ELSE Call("executeOperations", <<
                     Logged([r.st EXCEPT !.lastExitCode = r.code],
                            Event("segment-end", "", op.command, FALSE, i, r.code)),
                     operations, i + 1, r.code, depth>>)

\* The body of the try block of execute.
executeLine(st, input, depth) ==
    LET expanded == expandAliases(st, input)
    IN IF IsSimpleAssignment(expanded)
       THEN LET value == Call("expandString", <<st, Tail(expanded)>>)
            IN Returns([value.st EXCEPT !.localVars =
                           MapSet(@, AssignedName(Head(expanded)), value.text)], 0)
       ELSE IF IsFunctionDefinition(expanded)
       THEN Returns([st EXCEPT !.functions =
                        MapSet(@, FunctionHead(expanded[1]),
                               trim(SubSeq(expanded, 3, Len(expanded) - 1)))], 0)
       ELSE Call("executeOperations", <<st, splitByOperators(expanded), 1, 0, depth>>)

execute(st, input0, depth) ==
    LET input == trim(input0)
    IN IF depth = 0 THEN ThrowsError(st)
       ELSE IF input = <<>> \/ Head(input) \in CommentTokens THEN Returns(st, 0)
       ELSE LET r == Call("executeLine", <<[st EXCEPT !.level = @ + 1], input, depth - 1>>)
                out == [r.st EXCEPT !.level = @ - 1]
            IN IF r.thrown = "error"
               THEN Returns(writeln(out, <<"shazi-shell:", "error">>, TRUE), 1)
               ELSE [r EXCEPT !.st = out]

Call(method, a) ==
    CASE method = "execute" -> execute(a[1], a[2], a[3])
      [] method = "executeLine" -> executeLine(a[1], a[2], a[3])
      [] method = "executeOperations" -> executeOperations(a[1], a[2], a[3], a[4], a[5])
      [] method = "executeControlStructure" -> executeControlStructure(a[1], a[2], a[3], a[4])
      [] method = "executeIf" -> executeIf(a[1], a[2], a[3])
      [] method = "executeFor" -> executeFor(a[1], a[2], a[3])
      [] method = "forLoop" -> forLoop(a[1], a[2], a[3], a[4], a[5], a[6], a[7])
      [] method = "forParts" -> forParts(a[1])
      [] method = "executeCase" -> executeCase(a[1], a[2], a[3])
      [] method = "caseLoop" -> caseLoop(a[1], a[2], a[3], a[4])
      [] method = "executeWhile" -> executeWhile(a[1], a[2], a[3])
      [] method = "executeUntil" -> executeUntil(a[1], a[2], a[3])
      [] method = "whileLoop" -> whileLoop(a[1], a[2], a[3], a[4], a[5], a[6], a[7])
      [] method = "whileIteration" -> whileIteration(a[1], a[2], a[3], a[4], a[5])
      [] method = "whileParts" -> whileParts(a[1], a[2])
      [] method = "executePipeline" -> executePipeline(a[1], a[2], a[3])
      [] method = "pipelineLoop" -> pipelineLoop(a[1], a[2], a[3], a[4], a[5], a[6])
      [] method = "executeSimpleCommand" -> executeSimpleCommand(a[1], a[2], a[3], a[4])
      [] method = "setupRedirections" -> setupRedirections(a[1], a[2], a[3], a[4])
      [] method = "writeRedirected" -> writeRedirected(a[1], a[2], a[3], a[4])
      [] method = "expandString" -> expandString(a[1], a[2])
      [] method = "substituteCommands" -> substituteCommands(a[1], a[2])
      [] method = "substituteBackticks" -> substituteBackticks(a[1], a[2])
      [] method = "captureOutput" -> captureOutput(a[1], a[2])
      [] method = "dispatchCommand" -> dispatchCommand(a[1], a[2], a[3], a[4], a[5])
      [] method = "callBuiltin" -> callBuiltin(a[1], a[2], a[3], a[4])
      [] method = "executeRuntime" -> executeRuntime(a[1], a[2], a[3])
      [] method = "executeScript" -> executeScript(a[1], a[2], a[3], a[4])
      [] method = "cmdShell" -> cmdShell(a[1], a[2], a[3])
      [] method = "cmdSource" -> cmdSource(a[1], a[2], a[3])
      [] method = "cmdNpm" -> cmdNpm(a[1], a[2], a[3])
      [] method = "npmRun" -> npmRun(a[1], a[2], a[3])
      [] method = "npmInit" -> npmInit(a[1])
      [] method = "ifParts" -> ifParts(a[1])
      [] method = "writeFile" -> writeFile(a[1], a[2], a[3])

(***************************************************************************)
(* The worker (worker.ts) and the terminal that owns the session           *)
(* (Terminal.tsx).                                                         *)
(***************************************************************************)
\* The environment of a new Shell.
NewEnv ==
    [n \in {"HOME", "PATH", "USER", "PWD", "SHELL", "TERM", "LANG", "HOSTNAME"} |->
        CASE n = "HOME" -> <<"/home/user">>
          [] n = "PATH" -> <<"/bin:/usr/bin">>
          [] n = "USER" -> <<"user">>
          [] n = "PWD" -> <<"/home/user">>
          [] n = "SHELL" -> <<"/bin/sh">>
          [] n = "TERM" -> <<"xterm-256color">>
          [] n = "LANG" -> <<"en_US.UTF-8">>
          [] OTHER -> <<"shazi-shell">>]

\* new Shell(vfs, handleOutput, ...)
NewShell ==
    [onOutput |-> RealSink,
     caps |-> EmptyMap,
     functions |-> EmptyMap,
     scriptArgs |-> <<>>,
     lastExitCode |-> 0,
     localVars |-> EmptyMap,
     env |-> NewEnv,
     aliases |-> [a \in {"ll", "la", "..", "..."} |->
                     CASE a = "ll" -> <<"ls", "-la">>
                       [] a = "la" -> <<"ls", "-a">>
                       [] a = ".." -> <<"cd", "..">>
                       [] OTHER -> <<"cd", "../..">>],
     history |-> <<>>,
     editorState |-> NoEditor]

NewSession == [ended |-> FALSE, code |-> 0, prompts |-> 1, isInRepl |-> FALSE]

\* Shell.addToHistory
addToHistory(sh, command) ==
    IF trim(command) # <<>> /\ (sh.history = <<>> \/ command # Last(sh.history))
    THEN [sh EXCEPT !.history = Append(@, command)]
    ELSE sh

\* The handler of the worker's messages in the terminal: output is shown,
\* an exit or error message brings the next prompt.
onWorkerMessage(s, msg) ==
    CASE msg.type \in {"exit", "error", "prompt"} -> [s EXCEPT !.prompts = @ + 1]
      [] msg.type = "replActive" -> [s EXCEPT !.isInRepl = TRUE]
      [] msg.type = "replExit" -> [s EXCEPT !.isInRepl = FALSE, !.prompts = @ + 1]
      [] OTHER -> s

RECURSIVE onWorkerMessages(_, _)
onWorkerMessages(s, msgs) ==
    IF msgs = <<>> THEN s ELSE onWorkerMessages(onWorkerMessage(s, Head(msgs)), Tail(msgs))

\* The buffers of the closures that can still be called.
RECURSIVE SinkChain(_, _)
SinkChain(caps, sink) ==
    IF sink.kind = "real" THEN {} ELSE {sink.id} \cup SinkChain(caps, caps[sink.id].orig)

\* The evaluation state the Shell object and the VFS make, and back.
Evaluation(sh, v) ==
    [vfs |-> v, onOutput |-> sh.onOutput, caps |-> sh.caps, functions |-> sh.functions,
     scriptArgs |-> sh.scriptArgs, lastExitCode |-> sh.lastExitCode,
     localVars |-> sh.localVars, env |-> sh.env, aliases |-> sh.aliases,
     history |-> sh.history, editorState |-> sh.editorState,
     posted |-> <<>>, log |-> <<>>, level |-> 0]

ShellOf(st) ==
    [onOutput |-> st.onOutput,
     caps |-> [id \in SinkChain(st.caps, st.onOutput) |-> st.caps[id]],
     functions |-> st.functions, scriptArgs |-> st.scriptArgs,
     lastExitCode |-> st.lastExitCode, localVars |-> st.localVars, env |-> st.env,
     aliases |-> st.aliases, history |-> st.history, editorState |-> st.editorState]

\* handleMessage for an exec request: handleExec, and the catch around it.
\* While the shell says it is in a REPL the line goes to handleReplInput and
\* no exit code is posted.
\* The message of a thrown exit request, which is no Error, is 'Unknown
\* error'; an exit code that cannot be cloned makes postMessage throw.
HandleExec(command, cwd) ==
    /\ lineCount < MaxLines
    /\ lineCount' = lineCount + 1
    /\ line' = command
    /\ UNCHANGED <<lastErr, opCount, call, inflight, loop, applied, backend>>
    /\ LET moved == IF cwd = "" \/ isInRepl(shell) THEN Ret(vfs, "OK")
                    ELSE setCwd(vfs, PathOfWord(cwd))
       IN /\ pre' = [vfs |-> moved.v, onOutput |-> shell.onOutput,
                     functions |-> shell.functions, localVars |-> shell.localVars,
               lastExitCode |-> shell.lastExitCode, scriptArgs |-> shell.scriptArgs,
               editorState |-> shell.editorState]
          /\ IF isInRepl(shell)
             THEN \E st \in {handleReplInput(Evaluation(shell, vfs), command)} :
                     /\ vfs' = st.vfs
                     /\ shell' = ShellOf(st)
                     /\ log' = st.log
                     /\ posted' = st.posted
                     /\ session' = onWorkerMessages(session, posted')
                     /\ UNCHANGED outcome
             ELSE IF moved.err # "OK"
             THEN /\ posted' = <<Message("stderr", <<"cd:", moved.err, "\n">>, 0),
                                 Message("exit", <<>>, 1)>>
                  /\ session' = onWorkerMessages(session, posted')
                  /\ outcome' = [thrown |-> "none", code |-> 1]
                  /\ log' = <<>>
                  /\ UNCHANGED <<vfs, shell>>
             ELSE \E r \in {Call("execute", <<Evaluation(addToHistory(shell, command), moved.v),
                                                command, MaxDepth>>)} :
                     /\ vfs' = r.st.vfs
                     /\ shell' = ShellOf(r.st)
                     /\ log' = r.st.log
                     /\ outcome' = [thrown |-> r.thrown, code |-> r.code]
                     /\ posted' = IF r.thrown = "exit"
                                  THEN Append(r.st.posted, Message("error", <<"Unknown error">>, 0))
                                  ELSE IF isInRepl(r.st) THEN r.st.posted
                                  ELSE IF r.code = NotANumber
                                  THEN Append(r.st.posted, Message("error", <<"DataCloneError">>, 0))
                                  ELSE Append(r.st.posted, Message("exit", <<>>, r.code))
                     /\ session' = onWorkerMessages(session, posted')

(***************************************************************************)
(* Direct use of the VFS: any sequence of calls of its public methods.      *)
(***************************************************************************)
Names == {"home", "user", "tmp", "bin", "lib", "README.txt", "d"}

\* "/", "/tmp", "/d", "/tmp/d", "/tmp/d/d", "/tmp/..", and "d", "..",
\* "README.txt" relative to the current directory.
Paths ==
    {AbsPath(p) : p \in {<<>>, <<"tmp">>, <<"d">>, <<"tmp", "d">>, <<"tmp", "d", "d">>,
                          <<"tmp", "..">>}}
    \cup {RelPath(p) : p \in {<<"d">>, <<"..">>, <<"README.txt">>}}

Contents == {<<"x">>, <<"y", "\n">>}

vars == <<vfs, lastErr, opCount, call, shell, session, posted, log, line, outcome, pre,
          lineCount, inflight, loop, applied, backend>>

shellVars ==
    <<shell, session, posted, log, line, outcome, pre, lineCount, inflight, loop, applied>>

\* No function of the parser has been called directly.
(***************************************************************************)
(* The sandbox backend (src/backend/src/server.ts): one handler per        *)
(* WebSocket connection, which creates, starts and attaches a container.   *)
(* A connection is a record of the handler's variables (container, io,     *)
(* closed), the state of the socket, where the handler and cleanup are     *)
(* suspended, the state of the container in Docker, and the number of stop *)
(* and remove calls cleanup has made.                                      *)
(***************************************************************************)
MaxConns == 2

Conns == 1..MaxConns

NewConnection ==
    [ws |-> "none", errored |-> FALSE, pc |-> "idle", container |-> "null", io |-> "null",
     closed |-> FALSE, cleaning |-> "idle", docker |-> "none", stops |-> 0, removes |-> 0]

NoConnections == [c \in Conns |-> NewConnection]

NotApplied == [f |-> "", input |-> <<>>, env |-> EmptyMap, result |-> <<>>]

\* A call of a public method of the VFS: newPath is rename's second argument,
\* content is writeFile's.
Called(op, path, newPath, content, before) ==
    [op |-> op, path |-> path, newPath |-> newPath, content |-> content, before |-> before]

\* No loop yet: the fields of a loop are its kind, its condition and body,
\* the local variables iterations and exitCode, and the number of loops
\* the session has started.
NoLoop ==
    [running |-> FALSE, until |-> FALSE, cond |-> <<>>, body |-> <<>>,
     iterations |-> 0, exitCode |-> 0, started |-> 0]

\* The worker after handleInit, the terminal at its first prompt.
Init ==
    /\ vfs = NewVfs
    /\ lastErr = "OK"
    /\ opCount = 0
    /\ call = Called("", AbsPath(<<>>), AbsPath(<<>>), <<>>, NewVfs)
    /\ shell = NewShell
    /\ session = NewSession
    /\ posted = <<>>
    /\ log = <<>>
    /\ line = <<>>
    /\ outcome = [thrown |-> "none", code |-> 0]
    /\ pre = [vfs |-> NewVfs, onOutput |-> RealSink, functions |-> EmptyMap,
              localVars |-> EmptyMap, lastExitCode |-> 0, scriptArgs |-> <<>>,
              editorState |-> NoEditor]
    /\ lineCount = 0
    /\ inflight = <<>>
    /\ loop = NoLoop
    /\ applied = NotApplied
    /\ backend = NoConnections

VfsCall(r) ==
    /\ opCount < MaxOps
    /\ Cardinality(DOMAIN r.v.nodes) <= MaxNodes
    /\ vfs' = r.v
    /\ lastErr' = r.err
    /\ opCount' = opCount + 1
    /\ UNCHANGED <<shellVars, backend>>

WriteFile ==
    \E p \in Paths, c \in Contents :
        VfsCall(writeFile(vfs, p, c)) /\ call' = Called("writeFile", p, p, c, vfs)

Stat ==
    \E p \in Paths :
        VfsCall(Ret(vfs, statOp(vfs, p))) /\ call' = Called("stat", p, p, <<>>, vfs)

ReadFile ==
    \E p \in Paths :
        VfsCall(Ret(vfs, readFileErr(vfs, p))) /\ call' = Called("readFile", p, p, <<>>, vfs)

Readdir ==
    \E p \in Paths :
        VfsCall(Ret(vfs, readdirErr(vfs, p))) /\ call' = Called("readdir", p, p, <<>>, vfs)

Mkdir == \E p \in Paths : VfsCall(mkdir(vfs, p)) /\ call' = Called("mkdir", p, p, <<>>, vfs)

Mkdirp == \E p \in Paths : VfsCall(mkdirp(vfs, p)) /\ call' = Called("mkdirp", p, p, <<>>, vfs)

Rmdir == \E p \in Paths : VfsCall(rmdir(vfs, p)) /\ call' = Called("rmdir", p, p, <<>>, vfs)

Unlink == \E p \in Paths : VfsCall(unlink(vfs, p)) /\ call' = Called("unlink", p, p, <<>>, vfs)

Rename ==
    \E p \in Paths, q \in Paths :
        VfsCall(rename(vfs, p, q)) /\ call' = Called("rename", p, q, <<>>, vfs)

SetCwd == \E p \in Paths : VfsCall(setCwd(vfs, p)) /\ call' = Called("setCwd", p, p, <<>>, vfs)

NextVfs ==
    \/ Stat
    \/ ReadFile
    \/ Readdir
    \/ WriteFile
    \/ Mkdir
    \/ Mkdirp
    \/ Rmdir
    \/ Unlink
    \/ Rename
    \/ SetCwd

SpecVfs == Init /\ [][NextVfs]_vars

(***************************************************************************)
(* A terminal session: lines typed one after the other, each handled to    *)
(* its end before the next is sent.                                        *)
(***************************************************************************)
ExitLines ==
    {<<"exit", "3">>,
     <<"f()", "{", "exit", "3", "}">>, <<"f">>,
     <<"echo", "exit", "3", ">", "s">>, <<"sh", "s">>, <<"s">>, <<"source", "s">>,
     <<"npm", "init">>, <<"npm", "test">>,
     <<"if", "true", ";", "then", "exit", "3", ";", "fi">>,
     <<"exit", "3", ">", "out">>,
     <<"exit", "3", "|", "cat">>,
     <<"echo", "$(", "exit", "3", ")">>}

RedirectLines ==
    {<<"echo", "a", ">", "out">>, <<"echo", "b", ">>", "out">>,
     <<"cat", "out", "nofile", ">", "g">>, <<"source", "/tmp", ">", "out">>,
     <<"false", ">", "out">>, <<"echo", "a", ">", "/tmp">>,
     <<"cat", "<", "nofile">>, <<"cat", "<", "out">>,
     <<"touch", "x", ">", "g", "<", "nofile">>,
     <<"cat", "<", "nofile", "|", "echo", "a">>}

PipeLines ==
    {<<"echo", "a", "|", "cat">>, <<"echo", "a", "|", "cat", "|", "cat">>,
     <<"cat", "nofile", "|", "cat">>, <<"echo", "a", "|", "notacommand">>,
     <<"echo", "a", "|", "false", "|", "echo", "b">>}

WordLines ==
    {<<"help">>, <<"history">>, <<"true">>, <<"npm">>, <<"git">>, <<"pip">>,
     <<"python", "nofile">>, <<"notacommand">>, <<"constructor">>, <<"/tmp">>,
     <<"echo()", "{", "false", "}">>, <<"echo", "a">>}

Lines == ExitLines \cup RedirectLines \cup PipeLines \cup WordLines

Cwds == {"", "/tmp", "/nodir"}

Next == \E command \in Lines, cwd \in Cwds : HandleExec(command, cwd)

Spec == Init /\ [][Next]_vars

(***************************************************************************)
(* Sessions whose lines are operator lists  c1 op1 c2 [op2 c3].            *)
(***************************************************************************)
OpLines ==
    {c1 \o <<op1>> \o <<"echo", "a">> :
        c1 \in {<<"true">>, <<"false">>}, op1 \in Operators}
    \cup
    {c1 \o <<op1>> \o c2 \o <<op2>> \o <<"echo", "a">> :
        c1 \in {<<"true">>, <<"false">>}, op1 \in Operators,
        c2 \in {<<"true">>, <<"false">>}, op2 \in {"&&", "||"}}

NextOps == \E command \in OpLines : HandleExec(command, "")

SpecOps == Init /\ [][NextOps]_vars

(***************************************************************************)
(* Sessions whose lines are pipelines, and function definitions to have a  *)
(* function as a stage.                                                    *)
(***************************************************************************)
PipelineLines ==
    {<<"echo", "a", "|", "cat">>,
     <<"echo", "a", "|", "cat", "|", "cat">>,
     <<"cat", "README.txt", "nofile", "|", "cat">>,
     <<"echo", "a", "|", "cat", "nofile">>,
     <<"echo", "a", "|", "notacommand">>,
     <<"notacommand", "|", "cat">>,
     <<"echo", "a", "|", "false", "|", "echo", "b">>,
     <<"echo", "-n", "a", "|", "cat", "|", "true">>,
     <<"help", "|", "cat">>,
     <<"f", "|", "cat">>,
     <<"echo", "a", "|", "f">>}

FunctionLines == {<<"f()", "{", "echo", "c", ";", "cat", "nofile", "}">>}

NextPipes == \E command \in PipelineLines \cup FunctionLines : HandleExec(command, "")

SpecPipes == Init /\ [][NextPipes]_vars

(***************************************************************************)
(* Sessions whose lines are single stages or pipelines with redirections.  *)
(***************************************************************************)
OutputLines ==
    {<<"echo", "a", ">", "out">>,
     <<"echo", "b", ">>", "out">>,
     <<"cat", "out", "nofile", ">", "g">>,
     <<"cat", "out", ">>", "out">>,
     <<"source", "/tmp", ">", "out">>,
     <<"false", ">", "g">>,
     <<"help", ">>", "g">>,
     <<"echo", "a", ">", "/tmp">>}

InputLines ==
    {<<"cat", "<", "nofile">>,
     <<"cat", "<", "out">>,
     <<"cat", "<", "/tmp">>,
     <<"touch", "x", ">", "g", "<", "nofile">>,
     <<"touch", "x", "<", "nofile", ">", "g">>,
     <<"cat", "<", "nofile", "|", "echo", "a">>,
     <<"echo", "a", "|", "cat", "<", "nofile">>}

NextRedirect == \E command \in OutputLines \cup InputLines : HandleExec(command, "")

SpecRedirect == Init /\ [][NextRedirect]_vars

(***************************************************************************)
(* The worker when requests arrive while a handler is suspended.  The      *)
(* listener starts handleMessage for every message; a handler runs until   *)
(* it awaits a timer (sleep), and another message can be handled before    *)
(* the timer fires.  The lines are simple commands, so the handler of a    *)
(* sleep is the first half of executeSimpleCommand (the redirections, the  *)
(* dispatch), and after the timer its second half (the write of the        *)
(* captured text), the end of execute and of handleExec.                   *)
(***************************************************************************)
WorkerLines ==
    {<<"sleep", "1">>, <<"sleep", "1", ">", "a">>, <<"sleep", "1", ">>", "b">>,
     <<"echo", "a">>, <<"echo", "a", ">", "a">>, <<"echo", "b", ">>", "b">>,
     <<"cat", "a">>}

\* The buffers a suspended handler or the current sink can still reach.
LiveBuffers(caps, sink, frames) ==
    SinkChain(caps, sink)
    \cup UNION {SinkChain(caps, frames[h].originalOutput) : h \in DOMAIN frames}
    \cup UNION {IF frames[h].buffer = 0 THEN {}
                ELSE SinkChain(caps, CaptureSink(frames[h].buffer)) : h \in DOMAIN frames}

WorkerShellOf(st, frames) ==
    [ShellOf(st) EXCEPT !.caps = [id \in LiveBuffers(st.caps, st.onOutput, frames) |->
                                     st.caps[id]]]

\* The handler ran to its end: what it leaves and posts.
Completed(r, frames) ==
    /\ vfs' = r.st.vfs
    /\ shell' = WorkerShellOf(r.st, frames)
    /\ inflight' = frames
    /\ outcome' = [thrown |-> r.thrown, code |-> r.code]
    /\ LET messages == Append(r.st.posted,
                              IF r.thrown = "exit"
                              THEN Message("error", <<"Unknown error">>, 0)
                              ELSE Message("exit", <<>>, r.code))
       IN /\ posted' = posted \o messages
          /\ session' = onWorkerMessages(session, messages)

\* An exec message is handled: to its end, or up to the timer of sleep.
ReceiveExec(command) ==
    /\ lineCount < MaxLines
    /\ lineCount' = lineCount + 1
    /\ line' = command
    /\ pre' = [vfs |-> vfs, onOutput |-> shell.onOutput, functions |-> shell.functions,
               localVars |-> shell.localVars,
               lastExitCode |-> shell.lastExitCode, scriptArgs |-> shell.scriptArgs,
               editorState |-> shell.editorState]
    /\ log' = <<>>
    /\ UNCHANGED <<lastErr, opCount, call, loop, applied, backend>>
    /\ LET st0 == Evaluation(addToHistory(shell, command), vfs)
           tok == tokenizeCommand(command)
           originalOutput == shell.onOutput
       IN \E f \in {Call("setupRedirections",
                         <<st0, tok.redirects, originalOutput,
                           [st |-> st0, buffer |-> 0, redirectFile |-> "",
                            appendMode |-> FALSE, stdin |-> <<>>, failed |-> FALSE]>>)} :
          IF tok.cmd = "sleep" /\ ~f.failed
          THEN /\ inflight' = Append(inflight,
                                     [command |-> command, buffer |-> f.buffer,
                                      redirectFile |-> f.redirectFile,
                                      appendMode |-> f.appendMode,
                                      originalOutput |-> originalOutput])
               /\ shell' = WorkerShellOf(f.st, inflight')
               /\ UNCHANGED <<vfs, posted, session, outcome>>
          ELSE Completed(Call("execute", <<st0, command, MaxDepth>>), inflight)

\* The timer of the suspended handler h fires: sleep returns 0.
ResumeExec(h) ==
    /\ h \in DOMAIN inflight
    /\ LET frame == inflight[h]
           rest == [i \in 1..(Len(inflight) - 1) |->
                       IF i < h THEN inflight[i] ELSE inflight[i + 1]]
       IN \E r \in {Call("writeRedirected",
                         <<Evaluation(shell, vfs), frame, frame.originalOutput, 0>>)} :
             Completed(Returns([r.st EXCEPT !.lastExitCode = r.code], r.code), rest)
    /\ line' = inflight[h].command
    /\ log' = <<>>
    /\ UNCHANGED <<lastErr, opCount, call, pre, lineCount, loop, applied, backend>>

NextWorker ==
    \/ \E command \in WorkerLines : ReceiveExec(command)
    \/ \E h \in 1..MaxLines : ResumeExec(h)

SpecWorker == Init /\ [][NextWorker]_vars

(***************************************************************************)
(* Sessions whose lines are for loops  for i in ITEMS ; do BODY ; done.     *)
(***************************************************************************)
ForItems == {<<"a">>, <<"a", "b">>, <<"$u">>, <<"b", "$u", "a">>, <<"$i">>}

ForBodies ==
    {<<"echo", "$i">>,
     <<"echo", "$i", ";", "false">>,
     <<"false", ";", "echo", "$i">>,
     <<"cat", "$i">>}

ForLine(items, body) == <<"for", "i", "in">> \o items \o <<";", "do">> \o body \o <<";", "done">>

ForLines == {ForLine(items, body) : items \in ForItems, body \in ForBodies}

NextFor == \E command \in ForLines : HandleExec(command, "")

SpecFor == Init /\ [][NextFor]_vars

(***************************************************************************)
(* Sessions whose lines are while and until loops.  The handler of such a   *)
(* line is followed turn by turn through the loop of executeWhile: a step   *)
(* is the test of the cap, the condition and the body.  No other message is *)
(* handled meanwhile (the builtins of the lines do not wait for a timer).   *)
(***************************************************************************)
LoopLine(keyword, cond, body) ==
    <<keyword>> \o cond \o <<";", "do">> \o body \o <<";", "done">>

LoopLines ==
    {LoopLine("while", cond, <<"false">>) : cond \in {<<"true">>, <<"false">>}}
    \cup {LoopLine("until", cond, <<"true">>) : cond \in {<<"true">>, <<"false">>}}
    \cup {LoopLine("until", <<"cat", "f">>, <<"echo", "a", ";", "touch", "f">>),
          LoopLine("until", <<"true", ";", "cat", "f">>, <<"touch", "f">>)}

OtherLines == {<<"touch", "f">>}

\* The line, as execute and executeOperations read it, is one while or until
\* loop that the regular expression matches.
LoopOf(command) ==
    LET ctrl == extractControlStructure(expandAliases(shell, trim(command)))
    IN IF ctrl.found /\ ctrl.type \in {"while", "until"} /\ ctrl.remaining = <<>>
       THEN whileParts(ctrl.content, ctrl.type)
       ELSE [match |-> FALSE, cond |-> <<>>, body |-> <<>>]

\* handleExec up to the loop of executeWhile.
StartLoop(command) ==
    /\ ~loop.running
    /\ lineCount < MaxLines
    /\ loop.started < MaxLoops
    /\ LoopOf(command).match
    /\ lineCount' = lineCount + 1
    /\ line' = command
    /\ pre' = [vfs |-> vfs, onOutput |-> shell.onOutput, functions |-> shell.functions,
               localVars |-> shell.localVars,
               lastExitCode |-> shell.lastExitCode, scriptArgs |-> shell.scriptArgs,
               editorState |-> shell.editorState]
    /\ shell' = addToHistory(shell, command)
    /\ loop' = [running |-> TRUE, until |-> Head(trim(command)) = "until",
                cond |-> LoopOf(command).cond, body |-> LoopOf(command).body,
                iterations |-> 0, exitCode |-> 0, started |-> loop.started + 1]
    /\ posted' = <<>>
    /\ log' = <<>>
    /\ UNCHANGED <<vfs, lastErr, opCount, call, session, outcome, inflight, applied, backend>>

\* The loop is left: executeOperations records the exit code, execute
\* returns and handleExec posts it.
LeaveLoop(r) ==
    /\ vfs' = r.st.vfs
    /\ shell' = ShellOf([r.st EXCEPT !.lastExitCode = IF r.thrown = "none" THEN r.code ELSE @])
    /\ log' = r.st.log
    /\ outcome' = [thrown |-> r.thrown, code |-> r.code]
    /\ posted' = Append(r.st.posted,
                        IF r.thrown = "exit" THEN Message("error", <<"Unknown error">>, 0)
                        ELSE Message("exit", <<>>, r.code))
    /\ session' = onWorkerMessages(session, posted')
    /\ loop' = [loop EXCEPT !.running = FALSE]

\* One turn of the loop.
LoopTurn ==
    /\ loop.running
    /\ UNCHANGED <<lastErr, opCount, call, line, pre, lineCount, inflight, applied, backend>>
    /\ IF loop.iterations >= maxIterations
       THEN LeaveLoop(Returns([Evaluation(shell, vfs) EXCEPT !.level = 1], loop.exitCode))
       ELSE \E it \in {Call("whileIteration",
                             <<[Evaluation(shell, vfs) EXCEPT !.level = 1],
                               loop.cond, loop.body, loop.until, MaxDepth - 1>>)} :
               IF it.continue
               THEN /\ vfs' = it.r.st.vfs
                    /\ shell' = ShellOf(it.r.st)
                    /\ log' = it.r.st.log
                    /\ posted' = it.r.st.posted
                    /\ session' = onWorkerMessages(session, posted')
                    /\ loop' = [loop EXCEPT !.iterations = @ + 1, !.exitCode = it.r.code]
                    /\ UNCHANGED outcome
               ELSE LeaveLoop(IF it.r.thrown # "none" THEN it.r
                              ELSE Returns(it.r.st, loop.exitCode))

NextLoop ==
    \/ \E command \in LoopLines : StartLoop(command)
    \/ LoopTurn
    \/ \E command \in OtherLines : ~loop.running /\ HandleExec(command, "")

SpecLoop == Init /\ [][NextLoop]_vars

(***************************************************************************)
(* Sessions whose lines are if statements, flat and nested.  A statement is *)
(* a command or  if COND ; then A [; else B] ; fi  with statements A and B. *)
(***************************************************************************)
Command(text) == [kind |-> "command", text |-> text]

NoElse == [kind |-> "none"]

If(cond, a, b) == [kind |-> "if", cond |-> cond, a |-> a, b |-> b]

Conditions == {<<"true">>, <<"false">>, <<"echo", "c">>}

FlatIfs ==
    {If(c, Command(a), b) :
        c \in Conditions,
        a \in {<<"echo", "a">>, <<"false">>},
        b \in {Command(<<"echo", "b">>), NoElse}}

NestedIfs ==
    {If(c1, If(c2, Command(<<"echo", "a">>), Command(<<"echo", "b">>)), b) :
        c1 \in {<<"true">>, <<"false">>}, c2 \in {<<"true">>, <<"false">>},
        b \in {Command(<<"echo", "d">>), NoElse}}
    \cup
    {If(c1, Command(<<"echo", "a">>), If(c2, Command(<<"echo", "b">>), b)) :
        c1 \in {<<"true">>, <<"false">>}, c2 \in {<<"true">>, <<"false">>},
        b \in {Command(<<"echo", "d">>), NoElse}}

\* The text of a statement.
RECURSIVE Text(_)
Text(s) ==
    IF s.kind = "command" THEN s.text
    ELSE <<"if">> \o s.cond \o <<";", "then">> \o Text(s.a)
         \o (IF s.b.kind = "none" THEN <<>> ELSE <<";", "else">> \o Text(s.b))
         \o <<";", "fi">>

IfLines == {Text(s) : s \in FlatIfs \cup NestedIfs}

NextIf == \E command \in IfLines : HandleExec(command, "")

SpecIf == Init /\ [][NextIf]_vars

(***************************************************************************)
(* Sessions whose lines are case statements, and a for loop that sets the   *)
(* variable a case statement reads.  An arm is its patterns and its body.   *)
(***************************************************************************)
Arm(patterns, body) == [patterns |-> patterns, body |-> body]

CaseArms ==
    {<<Arm(<<"a">>, <<"echo", "1">>), Arm(<<"b">>, <<"echo", "2">>)>>,
     <<Arm(<<"a", "b">>, <<"false">>), Arm(<<"*">>, <<"echo", "2">>)>>,
     <<Arm(<<"*">>, <<"false">>), Arm(<<"a">>, <<"echo", "1">>)>>,
     <<Arm(<<"b">>, <<"false">>), Arm(<<"c", "b">>, <<"echo", "2">>), Arm(<<"b">>, <<"echo", "3">>)>>,
     <<Arm(<<"c">>, <<"echo", "1">>)>>}

CaseWords == {"a", "b", "$i", "$u"}

\* P1 | P2 ) BODY ;; for every arm.
RECURSIVE Alternatives(_)
Alternatives(patterns) ==
    IF Len(patterns) = 1 THEN patterns
    ELSE <<Head(patterns), "|">> \o Alternatives(Tail(patterns))

RECURSIVE ArmsText(_)
ArmsText(arms) ==
    IF arms = <<>> THEN <<>>
    ELSE Alternatives(Head(arms).patterns) \o <<")">> \o Head(arms).body \o <<";;">>
         \o ArmsText(Tail(arms))

CaseLine(word, arms) == <<"case", word, "in">> \o ArmsText(arms) \o <<"esac">>

CaseLines == {CaseLine(word, arms) : word \in CaseWords, arms \in CaseArms}

SetsVariable == {<<"for", "i", "in", "b", ";", "do", "true", ";", "done">>}

NextCase == \E command \in CaseLines \cup SetsVariable : HandleExec(command, "")

SpecCase == Init /\ [][NextCase]_vars

(***************************************************************************)
(* Sessions whose lines are malformed control structures, and an ordinary   *)
(* line after them.                                                          *)
(***************************************************************************)
\* The terminator is missing.
Unterminated ==
    {<<"for", "i", "in", "a", ";", "do", "echo", "hi">>,
     <<"for", "i", "in", "a", ";", "do", "false", ";", "echo", "hi">>,
     <<"while", "true", ";", "do", "echo", "hi">>,
     <<"until", "false", ";", "do", "false", ";", "echo", "hi">>,
     <<"if", "true", ";", "then", "echo", "hi">>,
     <<"if", "false", ";", "then", "false", ";", "else", "echo", "hi">>,
     <<"case", "a", "in", "a", ")", "echo", "hi">>}

\* The terminator is there and do, then or in is missing.
MissingKeyword ==
    {<<"for", "i", "in", "a", ";", "echo", "hi", ";", "done">>,
     <<"for", "i", "a", ";", "do", "echo", "hi", ";", "done">>,
     <<"while", "true", ";", "echo", "hi", ";", "done">>,
     <<"until", "false", ";", "echo", "hi", ";", "done">>,
     <<"if", "true", ";", "echo", "hi", ";", "fi">>,
     <<"case", "a", "a", ")", "echo", "hi", ";;", "esac">>}

MalformedLines == Unterminated \cup MissingKeyword

NextLines == {<<"echo", "ok">>}

NextMalformed == \E command \in MalformedLines \cup NextLines : HandleExec(command, "")

SpecMalformed == Init /\ [][NextMalformed]_vars

(***************************************************************************)
(* Direct use of expandArithmetic: any text with one $(( expression )) and *)
(* any values of the variables x and y.                                    *)
(***************************************************************************)
Expressions ==
    {<<"2", "+", "3", "*", "4">>, <<"1", "+", "1">>, <<"5">>, <<"x">>, <<"x", "+", "1">>,
     <<"x", "*", "y">>, <<"y", "+", "x", "*", "2">>, <<"u">>, <<"abs">>, <<"Math">>,
     <<"require">>, <<"true">>, <<"false">>, <<"2", "+">>, <<"x", "y">>}

Arithmetic(expr) == <<"$(", "(">> \o expr \o <<")", ")">>

Values ==
    {<<"3">>, <<"0">>, <<"2", "+", "2">>, <<"abs">>, <<"require">>, <<"self.close()">>,
     <<"4", "require">>}

Environments ==
    {EmptyMap} \cup {[n \in {"x"} |-> v] : v \in Values}
               \cup {[n \in {"x", "y"} |-> IF n = "x" THEN v ELSE w] :
                        v \in Values, w \in {<<"2">>, <<>>}}

ExpandArithmetic(expr, env) ==
    /\ applied' = [f |-> "expandArithmetic", input |-> <<"echo">> \o Arithmetic(expr),
                   env |-> env,
                   result |-> expandArithmetic(<<"echo">> \o Arithmetic(expr), env)]
    /\ UNCHANGED <<vfs, lastErr, opCount, call, shell, session, posted, log, line, outcome,
                   pre, lineCount, inflight, loop, backend>>

NextArithmetic == \E expr \in Expressions, env \in Environments : ExpandArithmetic(expr, env)

SpecArithmetic == Init /\ [][NextArithmetic]_vars

(***************************************************************************)
(* Sessions whose lines hold arithmetic expansions and assignments.         *)
(***************************************************************************)
ArithmeticLines ==
    {<<"echo">> \o Arithmetic(expr) :
        expr \in {<<"2", "+", "3", "*", "4">>, <<"1", "+", "1">>, <<"x">>, <<"x", "+", "1">>,
                  <<"u">>}}
    \cup {<<"x=">> \o Arithmetic(expr) : expr \in {<<"2", "+", "3">>, <<"x", "+", "1">>}}
    \cup {<<"x=", "2">>, <<"echo", "$x">>, <<"echo", "a", "$(", "echo", "b", ")">>}

NextArithmeticLines == \E command \in ArithmeticLines : HandleExec(command, "")

SpecArithmeticLines == Init /\ [][NextArithmeticLines]_vars

(***************************************************************************)
(* Sessions whose lines hold command substitutions, and the definition of  *)
(* the function one of them calls.                                         *)
(***************************************************************************)
SubstitutedCommands ==
    {<<"echo", "a">>, <<"cat", "README.txt">>, <<"echo", "-n", "a">>, <<"true">>,
     <<"echo", "a", "|", "cat">>, <<"g">>, <<"notacommand">>,
     <<"if", "true", ";", "then", "echo", "a", ";", "fi">>}

SubstitutionLines ==
    {<<"echo", "$(">> \o cmd \o <<")">> : cmd \in SubstitutedCommands}
    \cup {<<"echo", Backtick>> \o cmd \o <<Backtick>> : cmd \in SubstitutedCommands}

DefinesFunction == {<<"g()", "{", "echo", "a", "}">>}

NextSubstitution ==
    \E command \in SubstitutionLines \cup DefinesFunction : HandleExec(command, "")

SpecSubstitution == Init /\ [][NextSubstitution]_vars

(***************************************************************************)
(* Sessions whose lines print $? after segments that succeed, fail, are    *)
(* skipped, and run in branches, loop bodies and functions.                *)
(***************************************************************************)
StatusLines ==
    {<<"false", ";", "echo", "$?">>,
     <<"true", ";", "echo", "$?">>,
     <<"notacommand", ";", "echo", "$?">>,
     <<"echo", "$?">>,
     <<"false">>,
     <<"false", "&&", "true", ";", "echo", "$?">>,
     <<"if", "false", ";", "then", "true", ";", "fi", ";", "echo", "$?">>,
     <<"if", "true", ";", "then", "false", ";", "echo", "$?", ";", "fi">>,
     <<"for", "i", "in", "a", ";", "do", "false", ";", "echo", "$?", ";", "done", ";",
       "echo", "$?">>,
     <<"while", "false", ";", "do", "true", ";", "done", ";", "echo", "$?">>,
     <<"f()", "{", "false", ";", "echo", "$?", "}">>,
     <<"f", ";", "echo", "$?">>,
     <<"for", "i", "in", "a", ";", "echo", "hi", ";", "done", ";", "echo", "$?">>}

NextStatus == \E command \in StatusLines : HandleExec(command, "")

SpecStatus == Init /\ [][NextStatus]_vars

(***************************************************************************)
(* Sessions whose lines remove files and directories.  The session starts  *)
(* in /home/user, which holds README.txt; /tmp is empty until a file is    *)
(* made in it.                                                             *)
(***************************************************************************)
RmTargets == {"/home", "/tmp", "/", "README.txt", "/nodir"}

RmFlags == {<<>>, <<"-f">>, <<"-r">>, <<"-rf">>, <<"-v">>, <<"-f", "-v">>}

RmLines == {<<"rm">> \o flags \o <<target>> : flags \in RmFlags, target \in RmTargets}

MakesFile == {<<"touch", "/tmp/f">>}

NextRm == \E command \in RmLines \cup MakesFile : HandleExec(command, "")

SpecRm == Init /\ [][NextRm]_vars

(***************************************************************************)
(* Direct use of extractControlStructure and splitByOperators: a control   *)
(* structure whose body holds a command or another control structure, and  *)
(* what follows it on the line.                                            *)
(***************************************************************************)
Opening(kind) ==
    CASE kind = "for" -> <<"for", "i", "in", "a", ";", "do">>
      [] kind = "while" -> <<"while", "true", ";", "do">>
      [] kind = "until" -> <<"until", "false", ";", "do">>
      [] kind = "if" -> <<"if", "true", ";", "then">>
      [] OTHER -> <<"case", "a", "in", "a", ")">>

Structure(kind, body) ==
    IF kind = "case" THEN Opening(kind) \o body \o <<";;", "esac">>
    ELSE Opening(kind) \o body \o <<";", Terminator(kind)>>

OuterKinds == {"for", "while", "until", "if"}

InnerKinds == ControlKeywords \cup {"none"}

Inner(kind) == IF kind = "none" THEN <<"echo", "x">> ELSE Structure(kind, <<"echo", "x">>)

NestedBodies ==
    {Inner(kind) : kind \in InnerKinds}
    \cup {Inner(kind) \o <<";", "echo", "y">> : kind \in InnerKinds}
    \cup {<<"echo", "w", ";">> \o Inner(kind) : kind \in InnerKinds}

Followers == {<<>>, <<";", "echo", "z">>, <<"&&", "echo", "z">>}

ExtractControlStructure(kind, body, rest) ==
    /\ applied' = [f |-> "extractControlStructure", input |-> Structure(kind, body) \o rest,
                   env |-> EmptyMap,
                   result |-> extractControlStructure(Structure(kind, body) \o rest)]
    /\ UNCHANGED <<vfs, lastErr, opCount, call, shell, session, posted, log, line, outcome,
                   pre, lineCount, inflight, loop, backend>>

SplitByOperators(kind, body, rest) ==
    /\ applied' = [f |-> "splitByOperators", input |-> Structure(kind, body) \o rest,
                   env |-> EmptyMap,
                   result |-> splitByOperators(Structure(kind, body) \o rest)]
    /\ UNCHANGED <<vfs, lastErr, opCount, call, shell, session, posted, log, line, outcome,
                   pre, lineCount, inflight, loop, backend>>

NextExtract ==
    \E kind \in OuterKinds, body \in NestedBodies, rest \in Followers :
        \/ ExtractControlStructure(kind, body, rest)
        \/ SplitByOperators(kind, body, rest)

SpecExtract == Init /\ [][NextExtract]_vars

(***************************************************************************)
(* Sessions that define and call shell functions.  A call whose body       *)
(* starts with sleep is handled up to the timer: dispatchCommand has saved *)
(* scriptArgs and set the call's own, and execute of the body awaits the   *)
(* builtin.  Other lines can be handled before the timer fires; then the   *)
(* rest of the body runs, dispatchCommand puts the saved scriptArgs back   *)
(* and handleExec posts the exit code.                                     *)
(***************************************************************************)
MaxCalls == 3

FunctionBodies ==
    {<<"f()", "{", "echo", "$1", "$#", "}">>,
     <<"g()", "{", "f", "b", ";", "echo", "$1", "$#", "}">>,
     <<"h()", "{", "sleep", "1", ";", "echo", "$1", "$#", "}">>}

FunctionCalls ==
    {<<"f", "a">>, <<"f", "a", "b">>, <<"g", "c">>, <<"h", "a">>, <<"h", "b", "c">>}

CallLines == FunctionBodies \cup FunctionCalls \cup {<<"echo", "$1", "$#">>}

\* The line is a call of a function whose body awaits a timer first.
AwaitsTimer(sh, command) ==
    LET tok == tokenizeCommand(command)
    IN /\ tok.cmd \in DOMAIN sh.functions
       /\ LET operations == splitByOperators(trim(sh.functions[tok.cmd]))
          IN /\ Len(operations) >= 1
             /\ tokenizeCommand(operations[1].command).cmd = "sleep"

\* An exec message is handled: to its end, or up to the timer of the sleep
\* the called function starts with.
ReceiveCall(command) ==
    /\ lineCount < MaxCalls
    /\ lineCount' = lineCount + 1
    /\ line' = command
    /\ pre' = [vfs |-> vfs, onOutput |-> shell.onOutput, functions |-> shell.functions,
               localVars |-> shell.localVars,
               lastExitCode |-> shell.lastExitCode, scriptArgs |-> shell.scriptArgs,
               editorState |-> shell.editorState]
    /\ UNCHANGED <<lastErr, opCount, call, loop, applied, backend>>
    /\ LET sh == addToHistory(shell, command)
           tok == tokenizeCommand(command)
       IN IF AwaitsTimer(sh, command)
          THEN /\ inflight' = Append(inflight,
                                     [command |-> command, buffer |-> 0,
                                      redirectFile |-> "", appendMode |-> FALSE,
                                      originalOutput |-> sh.onOutput,
                                      savedArgs |-> sh.scriptArgs,
                                      operations |->
                                          splitByOperators(trim(sh.functions[tok.cmd]))])
               /\ shell' = [sh EXCEPT !.scriptArgs = <<tok.cmd>> \o tok.args]
               /\ log' = <<>>
               /\ UNCHANGED <<vfs, posted, session, outcome>>
          ELSE \E r \in {Call("execute", <<Evaluation(sh, vfs), command, MaxDepth>>)} :
                  /\ Completed(r, inflight)
                  /\ log' = r.st.log

\* The timer of the suspended call h fires: sleep returns 0, the rest of
\* the body runs, and the call returns.
ResumeCall(h) ==
    /\ h \in DOMAIN inflight
    /\ LET frame == inflight[h]
           rest == [i \in 1..(Len(inflight) - 1) |->
                       IF i < h THEN inflight[i] ELSE inflight[i + 1]]
           st == [Evaluation(shell, vfs) EXCEPT !.lastExitCode = 0]
       IN \E body \in {Call("executeOperations",
                            <<st, frame.operations, 2, 0, MaxDepth - 2>>)} :
             /\ Completed(IF body.thrown # "none" THEN body
                          ELSE Returns([body.st EXCEPT !.scriptArgs = frame.savedArgs,
                                                       !.lastExitCode = body.code],
                                       body.code),
                          rest)
             /\ log' = body.st.log
    /\ line' = inflight[h].command
    /\ UNCHANGED <<lastErr, opCount, call, pre, lineCount, loop, applied, backend>>

NextCalls ==
    \/ \E command \in CallLines : ReceiveCall(command)
    \/ \E h \in 1..MaxCalls : ResumeCall(h)

SpecCalls == Init /\ [][NextCalls]_vars


(***************************************************************************)
(* Sessions that export, assign, unset and expand variables.               *)
(***************************************************************************)
ExportLines ==
    {<<"export", "x=", "2">>, <<"export", "x=", "a">>, <<"export", "y=">>,
     <<"export", "y=", "b">>, <<"export", "x">>, <<"export", "=2">>,
     <<"x=", "3">>, <<"y=", "a">>, <<"unset", "x">>,
     <<"echo", "$x">>, <<"echo", "$y">>, <<"echo", "$USER">>}

NextExport == \E command \in ExportLines : HandleExec(command, "")

SpecExport == Init /\ [][NextExport]_vars

(***************************************************************************)
(* Sessions that start the line editor.                                    *)
(***************************************************************************)
EditorLines ==
    {<<"nano">>, <<"nano", "f">>, <<"nano", "README.txt">>, <<"nano", "/tmp">>,
     <<".exit">>, <<":q">>, <<".save">>, <<".show">>, <<".help">>,
     <<"hello">>, <<"echo", "a">>}

NextEditor == \E command \in EditorLines : HandleExec(command, "")

SpecEditor == Init /\ [][NextEditor]_vars

(***************************************************************************)
(* The editor when its methods are called on the shell directly, as an     *)
(* embedding of the Shell class can: startEditor and executeEditorInput.   *)
(***************************************************************************)
EditorInputs ==
    {<<".exit">>, <<":q">>, <<".save">>, <<".show">>, <<".help">>, <<"hello">>,
     <<"echo", "a">>}

EditorCall(command, r) ==
    /\ lineCount < MaxLines + 1
    /\ lineCount' = lineCount + 1
    /\ line' = command
    /\ pre' = [vfs |-> vfs, onOutput |-> shell.onOutput, functions |-> shell.functions,
               localVars |-> shell.localVars,
               lastExitCode |-> shell.lastExitCode, scriptArgs |-> shell.scriptArgs,
               editorState |-> shell.editorState]
    /\ vfs' = r.st.vfs
    /\ shell' = ShellOf(r.st)
    /\ log' = r.st.log
    /\ outcome' = [thrown |-> r.thrown, code |-> r.code]
    /\ posted' = r.st.posted
    /\ session' = onWorkerMessages(session, posted')
    /\ UNCHANGED <<lastErr, opCount, call, inflight, loop, applied, backend>>

StartEditor(args) ==
    \E r \in {startEditor(Evaluation(shell, vfs), args)} : EditorCall(<<"nano">> \o args, r)

ExecuteEditorInput(input) ==
    \E r \in {executeEditorInput(Evaluation(shell, vfs), input)} : EditorCall(input, r)

NextEditorDirect ==
    \/ \E args \in {<<>>, <<"f">>, <<"README.txt">>, <<"/tmp">>} : StartEditor(args)
    \/ \E input \in EditorInputs : ExecuteEditorInput(input)

SpecEditorDirect == Init /\ [][NextEditorDirect]_vars

(***************************************************************************)
(* The connections of the sandbox backend.  A step of the handler or of    *)
(* cleanup runs from one await to the next.  Docker starts a container it  *)
(* has created, stops one that runs and removes one that exists; any other *)
(* call is rejected.                                                       *)
(***************************************************************************)
\* cleanup up to its first await: nothing when closed is set; otherwise it
\* sets closed, ends io and, with a container, calls stop; without one it
\* goes to its finally block.
cleanup(k) ==
    IF k.closed THEN k
    ELSE IF k.container = "set"
    THEN [k EXCEPT !.closed = TRUE, !.cleaning = "stopping", !.stops = @ + 1]
    ELSE [k EXCEPT !.closed = TRUE, !.cleaning = "done", !.container = "null", !.io = "null"]

\* The catch of the handler: it sends the error and awaits cleanup, which
\* returns at once when closed was set already.
catch(k) ==
    LET cleaned == cleanup(k)
    IN [cleaned EXCEPT !.pc = IF k.closed \/ cleaned.cleaning = "done" THEN "closing"
                              ELSE "awaitCleanup"]

\* wss.on('connection'): the handler registers the listeners and calls
\* docker.createContainer.
Connect(c) ==
    /\ backend[c].ws = "none"
    /\ backend' = [backend EXCEPT ![c].ws = "open", ![c].pc = "creating"]
    /\ UNCHANGED <<vfs, lastErr, opCount, call, shellVars>>

\* createContainer has resolved or rejected; the handler calls start.
CreateContainer(c, ok) ==
    /\ backend[c].pc = "creating"
    /\ backend' = [backend EXCEPT ![c] =
                      IF ok THEN [@ EXCEPT !.container = "set", !.docker = "created",
                                           !.pc = "starting"]
                      ELSE catch(@)]
    /\ UNCHANGED <<vfs, lastErr, opCount, call, shellVars>>

\* start has resolved or rejected; the handler calls attach on what its
\* variable container holds, which throws when that is null.
StartContainer(c) ==
    /\ backend[c].pc = "starting"
    /\ backend' = [backend EXCEPT ![c] =
                      IF @.docker # "created" THEN catch(@)
                      ELSE IF @.container = "null" THEN catch([@ EXCEPT !.docker = "running"])
                      ELSE [@ EXCEPT !.docker = "running", !.pc = "attaching"]]
    /\ UNCHANGED <<vfs, lastErr, opCount, call, shellVars>>

\* attach has resolved or rejected; the handler keeps the stream in io and
\* sends ready.  What send does on a socket that is closed depends on the
\* WebSocket library: it throws or it does nothing.
AttachContainer(c, throws) ==
    /\ backend[c].pc = "attaching"
    /\ backend' = [backend EXCEPT ![c] =
                      IF @.docker # "running" THEN catch(@)
                      ELSE IF @.ws = "closed" /\ throws THEN catch([@ EXCEPT !.io = "set"])
                      ELSE [@ EXCEPT !.io = "set", !.pc = "ready"]]
    /\ UNCHANGED <<vfs, lastErr, opCount, call, shellVars>>

\* The end of the catch: cleanup has returned and the handler closes the
\* socket, whose close listener calls cleanup again.
CloseAfterCatch(c) ==
    /\ \/ backend[c].pc = "closing"
       \/ backend[c].pc = "awaitCleanup" /\ backend[c].cleaning = "done"
    /\ backend' = [backend EXCEPT ![c] = cleanup([@ EXCEPT !.ws = "closed", !.pc = "done"])]
    /\ UNCHANGED <<vfs, lastErr, opCount, call, shellVars>>

\* ws.on('close')
OnClose(c) ==
    /\ backend[c].ws = "open"
    /\ backend' = [backend EXCEPT ![c] = cleanup([@ EXCEPT !.ws = "closed"])]
    /\ UNCHANGED <<vfs, lastErr, opCount, call, shellVars>>

\* ws.on('error')
OnError(c) ==
    /\ backend[c].ws = "open"
    /\ ~backend[c].errored
    /\ backend' = [backend EXCEPT ![c] = cleanup([@ EXCEPT !.errored = TRUE])]
    /\ UNCHANGED <<vfs, lastErr, opCount, call, shellVars>>

\* cleanup after container.stop: whatever stop did, remove is called.
StopDone(c) ==
    /\ backend[c].cleaning = "stopping"
    /\ backend' = [backend EXCEPT ![c] =
                      [@ EXCEPT !.docker = IF @ = "running" THEN "stopped" ELSE @,
                                !.cleaning = "removing", !.removes = @ + 1]]
    /\ UNCHANGED <<vfs, lastErr, opCount, call, shellVars>>

\* cleanup after container.remove, and its finally block.
RemoveDone(c) ==
    /\ backend[c].cleaning = "removing"
    /\ backend' = [backend EXCEPT ![c] =
                      [@ EXCEPT !.docker = IF @ \in {"created", "running", "stopped"}
                                           THEN "removed" ELSE @,
                                !.cleaning = "done", !.container = "null", !.io = "null"]]
    /\ UNCHANGED <<vfs, lastErr, opCount, call, shellVars>>

\* The steps that are taken once they can be: Docker answers every call and
\* the event loop resumes the handler.
Resumes ==
    \E c \in Conns :
        \/ \E ok \in BOOLEAN : CreateContainer(c, ok)
        \/ StartContainer(c)
        \/ \E throws \in BOOLEAN : AttachContainer(c, throws)
        \/ CloseAfterCatch(c)
        \/ StopDone(c)
        \/ RemoveDone(c)

NextBackend ==
    \/ \E c \in Conns : Connect(c)
    \/ \E c \in Conns : OnClose(c)
    \/ \E c \in Conns : OnError(c)
    \/ \E c \in Conns, ok \in BOOLEAN : CreateContainer(c, ok)
    \/ \E c \in Conns : StartContainer(c)
    \/ \E c \in Conns, throws \in BOOLEAN : AttachContainer(c, throws)
    \/ \E c \in Conns : CloseAfterCatch(c)
    \/ \E c \in Conns : StopDone(c)
    \/ \E c \in Conns : RemoveDone(c)

SpecBackend == Init /\ [][NextBackend]_vars

SpecBackendFair == SpecBackend /\ WF_vars(Resumes)

(***************************************************************************)
(* Claims about the VFS.                                                   *)
(***************************************************************************)
InDegree(nodes, n) ==
    Cardinality({pk \in {<<p, k>> : p \in DOMAIN nodes, k \in Names} :
                    /\ pk[2] \in DOMAIN nodes[pk[1]].children
                    /\ nodes[pk[1]].children[pk[2]] = n})

IsTree(v) ==
    /\ v.nodes[RootId].type = "directory"
    /\ \A n \in DOMAIN v.nodes :
          /\ n \in Reach(v.nodes, {RootId})
          /\ InDegree(v.nodes, n) = IF n = RootId THEN 0 ELSE 1

\* C1: after any sequence of VFS operations the nodes that were not removed
\* form a tree rooted at the root directory: each is reachable from the root
\* by exactly one path, no directory is its own descendant, and the root is a
\* directory.
C1_TreeRooted == IsTree(vfs)

CwdResolves(v) ==
    LET node == walk(v.nodes, RootId, v.cwd)
    IN /\ normalizePath(v.cwd) = v.cwd
       /\ node # NoNode
       /\ v.nodes[node].type = "directory"

\* C2: in every reachable state the current working directory is an absolute
\* normalized path that resolves to an existing directory.
C2_CwdIsDirectory == CwdResolves(vfs)

\* C11: whenever a call of writeFile, mkdir, mkdirp, rmdir, unlink, rename or
\* setCwd fails, the tree and the current directory are exactly as they were
\* before the call; a rename whose destination parent is missing leaves the
\* source at its old path.
C11_FailureLeavesVfs ==
    (call.op # "" /\ lastErr # "OK") =>
        /\ vfs = call.before
        /\ (call.op = "rename" /\ getNode(call.before, call.path) # NoNode) =>
               getNode(vfs, call.path) = getNode(call.before, call.path)

\* A rename of an existing source has failed for its destination parent.
C11_Witness ==
    /\ call.op = "rename"
    /\ lastErr = "ENOENT"
    /\ getNode(call.before, call.path) # NoNode
    /\ getParentAndName(call.before, call.newPath).kind = "null"
    /\ getNode(vfs, call.path) = getNode(call.before, call.path)

\* The node a path names in a VFS, and the node of its parent directory
\* (NoNode when the path names nothing or is the root).
NodeAt(v, path) == walk(v.nodes, RootId, resolvePath(v, path))

ParentAt(v, path) ==
    LET resolved == resolvePath(v, path)
    IN IF resolved = <<>> THEN NoNode ELSE walk(v.nodes, RootId, Front(resolved))

IsDirectory(v, n) == n # NoNode /\ v.nodes[n].type = "directory"

\* The error the contract of a method names for a path in a VFS, "OK" when
\* it names none.
ContractError(op, v, path) ==
    LET n == NodeAt(v, path)
        parentMissing == resolvePath(v, path) # <<>> /\ ~IsDirectory(v, ParentAt(v, path))
    IN CASE op = "stat" -> IF n = NoNode THEN "ENOENT" ELSE "OK"
         [] op = "readFile" ->
                IF n = NoNode THEN "ENOENT"
                ELSE IF IsDirectory(v, n) THEN "EISDIR" ELSE "OK"
         [] op = "writeFile" ->
                IF parentMissing THEN "ENOENT"
                ELSE IF IsDirectory(v, n) THEN "EISDIR" ELSE "OK"
         [] op = "mkdir" ->
                IF parentMissing THEN "ENOENT"
                ELSE IF n # NoNode THEN "EEXIST" ELSE "OK"
         [] op = "rmdir" ->
                IF n = NoNode THEN "ENOENT"
                ELSE IF ~IsDirectory(v, n) THEN "ENOTDIR"
                ELSE IF DOMAIN v.nodes[n].children # {} THEN "ENOTEMPTY" ELSE "OK"
         [] op = "unlink" ->
                IF n = NoNode THEN "ENOENT"
                ELSE IF IsDirectory(v, n) THEN "EISDIR" ELSE "OK"
         [] op \in {"readdir", "setCwd"} ->
                IF n = NoNode THEN "ENOENT"
                ELSE IF ~IsDirectory(v, n) THEN "ENOTDIR" ELSE "OK"

ContractOps == {"stat", "readFile", "writeFile", "mkdir", "rmdir", "unlink", "readdir", "setCwd"}

\* C12: for every path, the root included, a call of stat, readFile,
\* writeFile, mkdir, rmdir, unlink, readdir or setCwd ends with the error its
\* contract names for that path, and with no other error.
C12_ContractErrors ==
    call.op \in ContractOps => lastErr = ContractError(call.op, call.before, call.path)

\* The same for the paths that do not resolve to the root.
C12_ContractErrorsBelowRoot ==
    (call.op \in ContractOps /\ resolvePath(call.before, call.path) # <<>>) =>
        lastErr = ContractError(call.op, call.before, call.path)

\* The places of the tree: the absolute normalized paths of up to three
\* names.
Places == UNION {[1..n -> Names] : n \in 0..3}

IsPrefix(a, b) == Len(a) <= Len(b) /\ SubSeq(b, 1, Len(a)) = a

\* The state of a rename's arguments before the call.
SourceExists == NodeAt(call.before, call.path) # NoNode

DestinationParentExists == IsDirectory(call.before, ParentAt(call.before, call.newPath))

DestinationParentMissing ==
    /\ resolvePath(call.before, call.newPath) # <<>>
    /\ ~DestinationParentExists

DestinationInsideSource ==
    /\ resolvePath(call.before, call.path) # resolvePath(call.before, call.newPath)
    /\ IsPrefix(resolvePath(call.before, call.path), resolvePath(call.before, call.newPath))

\* The node is at the new path with all it held.
MovedWhole ==
    LET node == NodeAt(call.before, call.path)
    IN /\ NodeAt(vfs, call.newPath) = node
       /\ \A n \in Reach(call.before.nodes, {node}) :
             n \in DOMAIN vfs.nodes /\ vfs.nodes[n] = call.before.nodes[n]

\* The old path names nothing any more, unless it is the new path.
OldPathGone ==
    resolvePath(call.before, call.path) # resolvePath(call.before, call.newPath) =>
        NodeAt(vfs, call.path) = NoNode

\* The old path does not name the moved node any more, unless it is the new
\* path.
OldPathLeft ==
    resolvePath(call.before, call.path) # resolvePath(call.before, call.newPath) =>
        NodeAt(vfs, call.path) # NodeAt(call.before, call.path)

\* The places outside the subtrees of the old and the new path name what
\* they named before.
OutsideUnchanged ==
    \A place \in Places :
        (/\ ~IsPrefix(resolvePath(call.before, call.path), place)
         /\ ~IsPrefix(resolvePath(call.before, call.newPath), place)) =>
            LET n == walk(vfs.nodes, RootId, place)
            IN /\ n = walk(call.before.nodes, RootId, place)
               /\ n # NoNode =>
                     /\ vfs.nodes[n].type = call.before.nodes[n].type
                     /\ vfs.nodes[n].content = call.before.nodes[n].content

RenameFailsENOENT ==
    (~SourceExists \/ DestinationParentMissing) => lastErr = "ENOENT"

\* C13: a rename of an existing source to a path whose parent directory
\* exists and that is not inside the source succeeds, the node with its
\* content and subtree is at the new path, the old path no longer resolves
\* unless it is the new path, and every path outside the subtrees of the two
\* paths is unchanged; with a missing source or a missing destination parent
\* the rename fails with ENOENT.
C13_RenameMoves ==
    call.op = "rename" =>
        /\ RenameFailsENOENT
        /\ (SourceExists /\ DestinationParentExists /\ ~DestinationInsideSource) =>
               /\ lastErr = "OK"
               /\ MovedWhole
               /\ OldPathGone
               /\ OutsideUnchanged

\* A place names a file with this content.
HoldsFile(v, place, content) ==
    LET n == walk(v.nodes, RootId, place)
    IN n # NoNode /\ v.nodes[n].type = "file" /\ v.nodes[n].content = content

\* A call writes, removes or renames a place or one of its ancestors: its
\* path, or the destination of a rename, is the place or above it.
Touches(c, place) ==
    \/ /\ c.op \in {"writeFile", "rmdir", "unlink", "rename"}
       /\ IsPrefix(resolvePath(c.before, c.path), place)
    \/ /\ c.op = "rename"
       /\ IsPrefix(resolvePath(c.before, c.newPath), place)

\* writeFile(p, b) for a p whose parent directory exists and that is not a
\* directory succeeds, and readFile(p) then returns b.
WriteThenRead(c, v, err) ==
    (/\ c.op = "writeFile"
     /\ IsDirectory(c.before, ParentAt(c.before, c.path))
     /\ ~IsDirectory(c.before, NodeAt(c.before, c.path))) =>
        /\ err = "OK"
        /\ readFileErr(v, c.path) = "OK"
        /\ readFile(v, c.path) = c.content

\* The places that name a node, down to a depth, below a node at a place.
RECURSIVE PlacesBelow(_, _, _, _)
PlacesBelow(nodes, n, place, depth) ==
    {place} \cup
        IF depth = 0 THEN {}
        ELSE UNION {PlacesBelow(nodes, nodes[n].children[k], Append(place, k), depth - 1) :
                        k \in DOMAIN nodes[n].children}

PlacesIn(v) == PlacesBelow(v.nodes, RootId, <<>>, 3)

\* A file keeps its content over a call that does not touch its place.
FileKept(v, c, w) ==
    \A place \in PlacesIn(v) :
        LET n == walk(v.nodes, RootId, place)
        IN (v.nodes[n].type = "file" /\ ~Touches(c, place)) =>
               HoldsFile(w, place, v.nodes[n].content)

\* C14: for every path p whose parent directory exists and that does not
\* name a directory, after writeFile(p, b) readFile(p) returns b, and it
\* keeps returning b over every later call that does not write, remove or
\* rename p or one of its ancestors.
C14_WriteReadRoundTrip ==
    [][WriteThenRead(call', vfs', lastErr') /\ FileKept(vfs, call', vfs')]_vars

\* A written file is still there, with what was written, after a later
\* successful rename of something else.
C14_Witness ==
    /\ call.op = "rename"
    /\ lastErr = "OK"
    /\ vfs # call.before
    /\ \E place \in Places, b \in Contents :
          /\ HoldsFile(call.before, place, b)
          /\ ~Touches(call, place)
          /\ HoldsFile(vfs, place, b)

\* A segment of the path names a file.
FileOnPath(v, path) ==
    LET resolved == resolvePath(v, path)
    IN \E i \in 1..Len(resolved) :
          LET n == walk(v.nodes, RootId, SubSeq(resolved, 1, i))
          IN n # NoNode /\ v.nodes[n].type = "file"

\* Every node of v is in w with its type, its content and its entries.
NothingReplaced(v, w) ==
    \A n \in DOMAIN v.nodes :
        /\ n \in DOMAIN w.nodes
        /\ w.nodes[n].type = v.nodes[n].type
        /\ w.nodes[n].content = v.nodes[n].content
        /\ \A k \in DOMAIN v.nodes[n].children :
              /\ k \in DOMAIN w.nodes[n].children
              /\ w.nodes[n].children[k] = v.nodes[n].children[k]

\* C15: mkdirp is idempotent: after a call that succeeded, a second call
\* with the same path succeeds and leaves the tree as the first call left it;
\* the directories that existed on the path, and what they hold, are not
\* replaced; when a segment of the path that exists is a file, the call fails
\* with ENOTDIR.
C15_MkdirpIdempotent ==
    call.op = "mkdirp" =>
        /\ lastErr = "OK" =>
               /\ mkdirp(vfs, call.path) = Ret(vfs, "OK")
               /\ NothingReplaced(call.before, vfs)
               /\ IsDirectory(vfs, NodeAt(vfs, call.path))
        /\ FileOnPath(call.before, call.path) => lastErr = "ENOTDIR"

\* A call of mkdirp has made directories below one that was there.
C15_Witness ==
    /\ call.op = "mkdirp"
    /\ lastErr = "OK"
    /\ Len(resolvePath(call.before, call.path)) >= 2
    /\ Cardinality(DOMAIN vfs.nodes) > Cardinality(DOMAIN call.before.nodes)
    /\ ParentAt(call.before, call.path) # NoNode

(***************************************************************************)
(* Claims about the session.                                               *)
(***************************************************************************)
\* The positions of the log where the exit builtin was dispatched as a
\* command (and not run inside a command substitution).
ExitRequests ==
    {i \in DOMAIN log : /\ log[i].e = "exit"
                        /\ i > 1
                        /\ log[i - 1].e = "dispatch"
                        /\ log[i - 1].cmd = "exit"}

\* C3: an exit request raised at any nesting depth propagates out of the
\* top-level execute with its exit code, and the session owner ends the
\* session with that code.
C3_ExitPropagates ==
    \A i \in ExitRequests :
        (\A j \in ExitRequests : i <= j) =>
            /\ outcome = [thrown |-> "exit", code |-> log[i].code]
            /\ session.ended
            /\ session.code = log[i].code

\* C4: whenever the execution of a line ends, by returning an exit code or
\* by propagating an exit request, the shell's output sink is the sink that
\* was installed before the line started.
C4_SinkRestored == lineCount > 0 => shell.onOutput = pre.onOutput

\* The category the precedence of C10 gives a word, with the tables as they
\* are written: the functions defined, the cases of the switch, the entries
\* of BUILTINS, the package managers, git, the runtimes, the files.
ClaimedCategory(fns, v, cmd) ==
    CASE cmd \in DOMAIN fns -> "function"
      [] cmd \in SpecialNames -> "special"
      [] cmd \in BuiltinNames -> "builtin"
      [] cmd \in PackageManagerNames -> "package"
      [] cmd = "git" -> "git"
      [] cmd \in RuntimeNames -> "runtime"
      [] IsFile(v, PathOfWord(cmd)) -> "file"
      [] OTHER -> "none"

\* A line that is one simple command: no operator, pipe, redirection,
\* substitution, control structure, alias or function definition.
IsSimpleLine(l) ==
    /\ l # <<>>
    /\ \A i \in DOMAIN l : l[i] \notin Operators \cup RedirectTypes \cup {"|", "$(", ")", "\n"}
    /\ Head(l) \notin {"if", "for", "while", "until", "case"} \cup CommentTokens
    /\ Head(l) \notin DOMAIN shell.aliases
    /\ FunctionHead(Head(l)) = ""

Dispatches == {i \in DOMAIN log : log[i].e = "dispatch"}

\* C10: the command word of a line is handled by the first category of the
\* precedence that contains it, and a word in no category yields exit code
\* 127 with a "command not found" message and runs nothing.
C10_DispatchPrecedence ==
    (lineCount > 0 /\ IsSimpleLine(line) /\ log # <<>>) =>
        LET category == ClaimedCategory(pre.functions, pre.vfs, Head(line))
        IN /\ \E d \in Dispatches :
                  /\ \A j \in Dispatches : d <= j
                  /\ log[d].cmd = Head(line)
                  /\ log[d].data = <<category>>
           /\ category = "none" =>
                  /\ outcome = [thrown |-> "none", code |-> 127]
                  /\ \E m \in DOMAIN posted :
                         /\ posted[m].type = "stderr"
                         /\ posted[m].data = <<"shazi-shell:", Head(line), "command not found", "\n">>
                  /\ Cardinality(Dispatches) = 1
                  /\ vfs = pre.vfs
\* The operator tokens of the line and the segments between them, read off
\* the line itself.
OperatorAt(l) == {i \in DOMAIN l : l[i] \in Operators}

SegmentCount(l) == Cardinality(OperatorAt(l)) + 1

\* Position of the k-th operator of l (0 for k = 0, Len(l) + 1 past the last).
OperatorPos(l, k) ==
    IF k = 0 THEN 0
    ELSE IF k > Cardinality(OperatorAt(l)) THEN Len(l) + 1
    ELSE CHOOSE i \in OperatorAt(l) : Cardinality({j \in OperatorAt(l) : j <= i}) = k

Segment(l, k) == SubSeq(l, OperatorPos(l, k - 1) + 1, OperatorPos(l, k) - 1)

\* Segment k of the line was executed: where in the log it started (0 when
\* it did not) and where it ended.
SegmentStart(k) ==
    LET hits == {i \in DOMAIN log : log[i].e = "segment" /\ log[i].lvl = 1 /\ log[i].n = k}
    IN IF hits = {} THEN 0 ELSE CHOOSE i \in hits : TRUE

SegmentEnd(k) ==
    LET hits == {i \in DOMAIN log : log[i].e = "segment-end" /\ log[i].lvl = 1 /\ log[i].n = k}
    IN IF hits = {} THEN 0 ELSE CHOOSE i \in hits : TRUE

SegmentRan(k) == SegmentStart(k) # 0

\* The exit code of the last segment before segment k that ran.
PreviousExitCode(k) ==
    LET ran == {j \in 1..(k - 1) : SegmentRan(j)}
        j == CHOOSE m \in ran : \A o \in ran : o <= m
    IN log[SegmentEnd(j)].code

\* C6: in a line c1 op1 c2 ... cn, segment c(i+1) is executed if and only if
\* op_i is ';', or op_i is '&&' and the previous exit code is 0, or op_i is
\* '||' and the previous exit code is not 0; the segments run from left to
\* right, and the line's result is the exit code of the last one that ran.
C6_ShortCircuit ==
    (lineCount > 0 /\ line \in OpLines /\ outcome.thrown = "none") =>
        LET n == SegmentCount(line)
            ran == {k \in 1..n : SegmentRan(k)}
        IN /\ SegmentRan(1)
           /\ \A k \in ran : /\ log[SegmentStart(k)].data = Segment(line, k)
                             /\ SegmentEnd(k) > SegmentStart(k)
           /\ \A k \in 1..(n - 1) :
                  SegmentRan(k + 1) <=>
                      LET op == line[OperatorPos(line, k)]
                      IN \/ op = ";"
                         \/ op = "&&" /\ PreviousExitCode(k + 1) = 0
                         \/ op = "||" /\ PreviousExitCode(k + 1) # 0
           /\ \A j \in ran, k \in ran : j < k => SegmentEnd(j) < SegmentStart(k)
           /\ Cardinality({i \in DOMAIN log : log[i].e = "segment" /\ log[i].lvl = 1})
                  = Cardinality(ran)
           /\ outcome.code = log[SegmentEnd(CHOOSE m \in ran : \A o \in ran : o <= m)].code

\* A line whose second segment was skipped and whose third ran.
C6_Witness ==
    /\ lineCount > 0
    /\ line \in OpLines
    /\ SegmentCount(line) = 3
    /\ SegmentRan(1) /\ ~SegmentRan(2) /\ SegmentRan(3)
    /\ outcome.code = log[SegmentEnd(3)].code
\* The stages of the line: the tokens between its '|' tokens.
PipeAt(l) == {i \in DOMAIN l : l[i] = "|"}

StageCount(l) == Cardinality(PipeAt(l)) + 1

PipePos(l, k) ==
    IF k = 0 THEN 0
    ELSE IF k > Cardinality(PipeAt(l)) THEN Len(l) + 1
    ELSE CHOOSE i \in PipeAt(l) : Cardinality({j \in PipeAt(l) : j <= i}) = k

Stage(l, k) == SubSeq(l, PipePos(l, k - 1) + 1, PipePos(l, k) - 1)

\* Where in the log the k-th stage of the line started (0 when it did not)
\* and where the stage that started at i ended.
StageStarts == {i \in DOMAIN log : log[i].e = "stage" /\ log[i].lvl = 1}

StageStart(k) ==
    LET hits == {i \in StageStarts : Cardinality({j \in StageStarts : j <= i}) = k}
    IN IF hits = {} THEN 0 ELSE CHOOSE i \in hits : TRUE

StageEnd(i) ==
    LET hits == {j \in DOMAIN log : j > i /\ log[j].e = "stage-end" /\ log[j].lvl = 1}
    IN IF hits = {} THEN 0 ELSE CHOOSE j \in hits : \A m \in hits : j <= m

\* The text written between two positions of the log, to stdout or stderr.
RECURSIVE Written(_, _, _)
Written(i, j, isError) ==
    IF i > j THEN <<>>
    ELSE (IF log[i].e = "write" /\ log[i].err = isError THEN log[i].data ELSE <<>>)
         \o Written(i + 1, j, isError)

\* The text of the messages of one type that reached the main thread.
RECURSIVE Posted(_, _)
Posted(i, type) ==
    IF i > Len(posted) THEN <<>>
    ELSE (IF posted[i].type = type THEN posted[i].data ELSE <<>>) \o Posted(i + 1, type)

\* C7: in a pipeline of N > 1 stages, stage k+1 starts only after stage k has
\* finished and receives as stdin exactly the stdout text of stage k; the
\* stdout of stages 1..N-1 never reaches the real sink, the stderr of every
\* stage reaches it uncaptured, and the stdout of stage N goes to it.
C7_PipelineStages ==
    (lineCount > 0 /\ line \in PipelineLines /\ outcome.thrown = "none"
        /\ pre.onOutput = RealSink) =>
        LET n == StageCount(line)
        IN /\ Cardinality(StageStarts) = n
           /\ \A k \in 1..n : /\ log[StageStart(k)].cmd = Head(Stage(line, k))
                              /\ StageEnd(StageStart(k)) # 0
           /\ log[StageStart(1)].data = <<>>
           /\ \A k \in 1..(n - 1) :
                  /\ StageEnd(StageStart(k)) < StageStart(k + 1)
                  /\ log[StageStart(k + 1)].data =
                         Written(StageStart(k), StageEnd(StageStart(k)), FALSE)
           /\ Posted(1, "stdout") = Written(StageStart(n), StageEnd(StageStart(n)), FALSE)
           /\ Posted(1, "stderr") = Written(1, Len(log), TRUE)

\* A pipeline of three stages whose first stage wrote text and whose second
\* stage received it.
C7_Witness ==
    /\ lineCount > 0
    /\ line \in PipelineLines
    /\ StageCount(line) = 3
    /\ StageStart(3) # 0
    /\ log[StageStart(2)].data # <<>>
    /\ log[StageStart(2)].data = Written(StageStart(1), StageEnd(StageStart(1)), FALSE)
\* The output redirection of a line that has exactly one: where it is.
OutputAt(l) == {i \in DOMAIN l : l[i] \in {">", ">>"}}

\* A path that can hold a file's text: a file, or nothing yet.
CanHold(v, path) == ~exists(v, path) \/ IsFile(v, path)

UnreadableInputs(tokens, v) ==
    {i \in DOMAIN tokens : /\ tokens[i] = "<"
                           /\ i < Len(tokens)
                           /\ readFileErr(v, PathOfWord(tokens[i + 1])) # "OK"}

\* C9 as stated: if the target of a < redirection cannot be read, the
\* segment returns exit code 1, no command is dispatched, the VFS is unchanged
\* and the output sink is the original one.
C9_SegmentFails ==
    (lineCount > 0 /\ line \in InputLines /\ UnreadableInputs(line, pre.vfs) # {}) =>
        /\ outcome = [thrown |-> "none", code |-> 1]
        /\ Dispatches = {}
        /\ vfs = pre.vfs
        /\ shell.onOutput = pre.onOutput

\* C9, per stage: if the target of a < redirection of a stage cannot be read
\* when the stage starts, the stage returns exit code 1 and its command is
\* never dispatched, the stage leaves the VFS unchanged (also when it carries
\* a > redirection) and the sink as it was; the segment returns 1 when that
\* stage is its last.
C9_StageFails ==
    (lineCount > 0 /\ line \in InputLines) =>
        \A k \in 1..StageCount(line) :
            LET s == StageStart(k)
                e == StageEnd(s)
            IN (s # 0 /\ UnreadableInputs(Stage(line, k), log[s].snap.vfs) # {}) =>
                   /\ e # 0
                   /\ log[e].code = 1
                   /\ \A i \in s..e : log[i].e # "dispatch"
                   /\ log[e].snap.vfs = log[s].snap.vfs
                   /\ log[e].snap.onOutput = log[s].snap.onOutput
                   /\ k = StageCount(line) => outcome = [thrown |-> "none", code |-> 1]

\* A stage with both > g and an unreadable < has ended: exit code 1, g not
\* created.
C9_Witness ==
    /\ lineCount > 0
    /\ line = <<"touch", "x", ">", "g", "<", "nofile">>
    /\ outcome = [thrown |-> "none", code |-> 1]
    /\ ~exists(vfs, RelPath(<<"g">>))
    /\ ~exists(vfs, RelPath(<<"x">>))
\* C5: command dispatch is serialized: a second exec request that arrives
\* while an earlier command is suspended does not start before the first
\* has completed, so two sink swaps never overlap, and when all commands have
\* finished the output sink is the original one.
C5_Serialized ==
    /\ Len(inflight) <= 1
    /\ inflight = <<>> => shell.onOutput = RealSink

(***************************************************************************)
(* Claims about the control structures.                                    *)
(***************************************************************************)
\* The commands a text is made of when ';' separates them.
RECURSIVE CommandsOf(_)
CommandsOf(text) ==
    LET semi == FirstIn(text, {";"})
    IN IF semi = 0 THEN <<text>>
       ELSE <<SubSeq(text, 1, semi - 1)>> \o CommandsOf(SubSeq(text, semi + 1, Len(text)))

\* The items and the body of a line of ForLines, and the items after
\* expansion with the variables the line started with.
ItemsOf(l) == SubSeq(l, 4, FirstIn(l, {";"}) - 1)

BodyOf(l) == SubSeq(l, FirstIn(l, {"do"}) + 1, Len(l) - 2)

ExpandedItems == words(expandLoop(ItemsOf(line), pre.localVars, [w \in SpecialWords |-> <<>>]))

\* The events of a kind at a nesting level of execute, in order.
EventsAt(e, lvl) == SelectSeq(log, LAMBDA ev : ev.e = e /\ ev.lvl = lvl)

DataOf(events) == [k \in 1..Len(events) |-> events[k].data]

\* What the body runs and prints once per item: all its commands, and the
\* item for every echo of the variable.
RECURSIVE ExpectedCommands(_, _)
ExpectedCommands(items, body) ==
    IF items = <<>> THEN <<>>
    ELSE CommandsOf(body) \o ExpectedCommands(Tail(items), body)

RECURSIVE ExpectedOutput(_, _)
ExpectedOutput(items, body) ==
    IF items = <<>> THEN <<>>
    ELSE [k \in 1..Len(SelectSeq(CommandsOf(body), LAMBDA c : c = <<"echo", "$i">>)) |->
             <<Head(items), "\n">>]
         \o ExpectedOutput(Tail(items), body)

\* C16: for VAR in ITEMS; do BODY; done runs BODY once per item of the
\* expanded ITEMS, in order, with VAR bound to the item during the run, all
\* the commands of BODY running each time; the result is the exit code of
\* the last run of BODY, and 0 when there are no items.
C16_ForRunsBodyPerItem ==
    (lineCount > 0 /\ line \in ForLines) =>
        LET items == ExpandedItems
            ends == EventsAt("segment-end", 2)
        IN /\ outcome.thrown = "none"
           /\ DataOf(EventsAt("segment", 2)) = ExpectedCommands(items, BodyOf(line))
           /\ Len(ends) = Len(EventsAt("segment", 2))
           /\ DataOf(SelectSeq(log, LAMBDA ev : ev.e = "write" /\ ~ev.err))
                 = ExpectedOutput(items, BodyOf(line))
           /\ outcome.code = IF items = <<>> THEN 0 ELSE ends[Len(ends)].code
           /\ items # <<>> => shell.localVars["i"] = <<Last(items)>>
           /\ items = <<>> => shell.localVars = pre.localVars

\* A loop over two items, the second of which is the first item of the line
\* before, has run a body of two commands twice.
C16_Witness ==
    /\ lineCount = 2
    /\ line = ForLine(<<"b", "$u", "a">>, <<"echo", "$i", ";", "false">>)
    /\ pre.localVars = [v \in {"i"} |-> <<"a">>]
    /\ Len(EventsAt("segment", 2)) = 4
    /\ outcome.code = 1

\* The commands that ran at a nesting level of execute according to a log,
\* and the exit codes they ended with.
RanAt(l, lvl) == DataOf(SelectSeq(l, LAMBDA ev : ev.e = "segment" /\ ev.lvl = lvl))

CodesAt(l, lvl) ==
    LET ends == SelectSeq(l, LAMBDA ev : ev.e = "segment-end" /\ ev.lvl = lvl)
    IN [k \in 1..Len(ends) |-> ends[k].code]

\* A turn of a loop that has run its body fewer than maxIterations times:
\* the condition runs, all of it; the body runs after it exactly when the
\* condition's exit code keeps the loop going, and its exit code is kept;
\* otherwise the loop ends with the exit code of the last run of the body.
TurnBelowCap ==
    LET cond == CommandsOf(loop.cond)
        body == CommandsOf(loop.body)
        ran == RanAt(log', 2)
        codes == CodesAt(log', 2)
        goesOn == IF loop.until THEN codes[Len(cond)] # 0 ELSE codes[Len(cond)] = 0
    IN /\ Len(ran) >= Len(cond)
       /\ SubSeq(ran, 1, Len(cond)) = cond
       /\ Len(codes) = Len(ran)
       /\ IF goesOn
          THEN /\ ran = cond \o body
               /\ loop'.running
               /\ loop'.iterations = loop.iterations + 1
               /\ loop'.exitCode = codes[Len(codes)]
          ELSE /\ ran = cond
               /\ ~loop'.running
               /\ loop'.iterations = loop.iterations
               /\ outcome' = [thrown |-> "none", code |-> loop.exitCode]
               /\ posted'[Len(posted')] = Message("exit", <<>>, loop.exitCode)

\* A turn of a loop that has run its body maxIterations times: nothing runs,
\* nothing is written, and the line ends with the exit code of the last run
\* of the body.
TurnAtCap ==
    /\ log' = <<>>
    /\ ~loop'.running
    /\ loop'.iterations = loop.iterations
    /\ outcome' = [thrown |-> "none", code |-> loop.exitCode]
    /\ posted' = <<Message("exit", <<>>, loop.exitCode)>>
    /\ vfs' = vfs

\* C17: a while (until) loop runs its condition as a full command before
\* every run of the body and runs the body only while the condition's exit
\* code is 0 (not 0 for until); the body runs at most 10,000 times, and a
\* loop that reaches the cap stops without an error message and returns the
\* exit code of the last run of the body.
C17_LoopBounded ==
    [][/\ loop'.iterations <= maxIterations
       /\ loop.running =>
              IF loop.iterations < maxIterations THEN TurnBelowCap ELSE TurnAtCap]_vars

\* while true; do false; done has stopped after 10,000 runs of its body.
C17_Witness ==
    /\ line = LoopLine("while", <<"true">>, <<"false">>)
    /\ ~loop.running
    /\ loop.iterations = maxIterations
    /\ outcome = [thrown |-> "none", code |-> 1]
    /\ posted = <<Message("exit", <<>>, 1)>>

\* What a command of the lines prints and returns.
Prints(text) == IF Head(text) = "echo" THEN <<Tail(text) \o <<"\n">>>> ELSE <<>>

ExitCodeOf(text) == IF Head(text) = "false" THEN 1 ELSE 0

\* What a statement prints and returns when an if runs its condition once
\* and then the one branch the condition selects, nothing when there is
\* none.
RECURSIVE Meaning(_)
Meaning(s) ==
    IF s.kind = "command" THEN [out |-> Prints(s.text), code |-> ExitCodeOf(s.text)]
    ELSE IF ExitCodeOf(s.cond) = 0
    THEN [out |-> Prints(s.cond) \o Meaning(s.a).out, code |-> Meaning(s.a).code]
    ELSE IF s.b.kind = "none" THEN [out |-> Prints(s.cond), code |-> 0]
    ELSE [out |-> Prints(s.cond) \o Meaning(s.b).out, code |-> Meaning(s.b).code]

\* The line did what a statement means: it printed that, wrote no error and
\* returned that exit code.
Does(m) ==
    /\ outcome = [thrown |-> "none", code |-> m.code]
    /\ DataOf(SelectSeq(log, LAMBDA ev : ev.e = "write")) = m.out
    /\ \A i \in DOMAIN log : log[i].e = "write" => ~log[i].err

Did(s) == Does(Meaning(s))

\* C18: if COND; then A; else B; fi runs COND once and then exactly one
\* branch, A when COND returns 0 and B otherwise; without else and with a
\* failing COND nothing more runs and the result is 0, otherwise the result
\* is the exit code of the branch; also when A or B are if statements with
\* their own else.
C18_IfRunsOneBranch ==
    lineCount > 0 => \A s \in FlatIfs \cup NestedIfs : line = Text(s) => Did(s)

\* The same for the statements whose branches are commands.
C18_FlatIfRunsOneBranch ==
    lineCount > 0 => \A s \in FlatIfs : line = Text(s) => Did(s)

\* The word of a case statement after expansion with the variables the line
\* started with: nothing for a variable that is not set.
WordValue(word) ==
    IF word \notin VariableWords THEN <<word>>
    ELSE IF VariableOf(word) \in DOMAIN pre.localVars THEN pre.localVars[VariableOf(word)]
    ELSE <<>>

\* The arms that match a word: one of the patterns is the word or *.
Matching(arms, value) ==
    {i \in DOMAIN arms :
        \E k \in DOMAIN arms[i].patterns :
            arms[i].patterns[k] = "*" \/ <<arms[i].patterns[k]>> = value}

\* What a case statement means: the body of the first arm that matches, and
\* nothing when none does.
CaseMeaning(word, arms) ==
    LET hits == Matching(arms, WordValue(word))
    IN IF hits = {} THEN [out |-> <<>>, code |-> 0]
       ELSE LET first == CHOOSE i \in hits : \A j \in hits : i <= j
            IN [out |-> Prints(arms[first].body), code |-> ExitCodeOf(arms[first].body)]

\* C19: a case statement compares the expanded word with the arms in order,
\* an arm matching when one of its |-separated patterns is the word or *;
\* the body of the first arm that matches, and no other, runs and gives the
\* result; when none matches nothing runs and the result is 0.
C19_CaseRunsFirstMatch ==
    lineCount > 0 =>
        \A word \in CaseWords, arms \in CaseArms :
            line = CaseLine(word, arms) => Does(CaseMeaning(word, arms))

\* The variable set by the line before selects the third arm's second
\* pattern although a later arm matches too.
C19_Witness ==
    /\ lineCount = 2
    /\ pre.localVars = [v \in {"i"} |-> <<"b">>]
    /\ line = CaseLine("$i", <<Arm(<<"b">>, <<"false">>), Arm(<<"c", "b">>, <<"echo", "2">>),
                               Arm(<<"b">>, <<"echo", "3">>)>>)
    /\ outcome.code = 1

\* A line was refused as a syntax error: exit code 2, a diagnostic on the
\* error sink and no part of it run as a command.
Refused ==
    /\ outcome = [thrown |-> "none", code |-> 2]
    /\ \E i \in DOMAIN log : log[i].e = "write" /\ log[i].err
    /\ \A i \in DOMAIN log : log[i].e # "dispatch"

\* The ordinary line ran: it printed ok and returned 0.
NextLineRan == Does([out |-> Prints(<<"echo", "ok">>), code |-> 0])

\* C20: a malformed for, while, until, if or case construct (terminator
\* missing, or do, then or in missing) yields exit code 2 with a diagnostic
\* on the error sink and runs none of its parts as commands, and the line
\* after it is executed.
C20_MalformedRefused ==
    lineCount > 0 =>
        /\ line \in MalformedLines => Refused
        /\ line \in NextLines => NextLineRan

\* The same for the constructs whose terminator is there.
C20_MissingKeywordRefused ==
    lineCount > 0 =>
        /\ line \in MissingKeyword => Refused
        /\ line \in NextLines => NextLineRan

\* A construct without its terminator returns the exit code of the last of
\* its parts, each part run as an ordinary command.
C20_UnterminatedRunsParts ==
    (lineCount > 0 /\ line \in Unterminated) =>
        /\ outcome.thrown = "none" /\ outcome.code \in {0, 127}
        /\ \E i \in DOMAIN log : log[i].e = "dispatch" /\ log[i].cmd = Head(line)

(***************************************************************************)
(* Claims about the expansions.                                            *)
(***************************************************************************)
\* The value of an expression whose variables are replaced by the values
\* the line started with, 0 for one that is not set.
ExpressionValue(expr) ==
    LET numbers == [k \in DOMAIN expr |->
                       IF expr[k] \in {"+", "*"} \cup NumberWords THEN expr[k]
                       ELSE IF expr[k] \in DOMAIN pre.localVars /\ Len(pre.localVars[expr[k]]) = 1
                       THEN pre.localVars[expr[k]][1]
                       ELSE "0"]
    IN ToString(valueOf(numbers, 0, 1))

\* What the line wrote to the real sink as standard output.
StdoutOf(messages) == DataOf(SelectSeq(messages, LAMBDA m : m.type = "stdout"))

\* C21: in a command line and in an assignment $((expr)) is replaced by the
\* integer value of expr, its variables substituted first and a variable
\* that is not set counting as 0; echo $((2+3*4)) prints 14.
C21_ArithmeticExpands ==
    lineCount > 0 =>
        \A expr \in Expressions :
            /\ line = <<"echo">> \o Arithmetic(expr) =>
                    /\ outcome = [thrown |-> "none", code |-> 0]
                    /\ StdoutOf(posted) = <<<<ExpressionValue(expr), "\n">>>>
            /\ line = <<"x=">> \o Arithmetic(expr) =>
                    /\ outcome = [thrown |-> "none", code |-> 0]
                    /\ shell.localVars["x"] = <<ExpressionValue(expr)>>

\* What these lines do: the command substitution takes $(( ... ) first, its
\* command ( ... is no builtin and prints nothing, and one ) is left.
C21_SubstitutionTakesArithmetic ==
    lineCount > 0 =>
        \A expr \in Expressions :
            /\ line = <<"echo">> \o Arithmetic(expr) => StdoutOf(posted) = <<<<")", "\n">>>>
            /\ line = <<"x=">> \o Arithmetic(expr) => shell.localVars["x"] = <<")">>

\* C22: an expression that after the substitution of the variables holds
\* a character other than digits, blanks, arithmetic operators and
\* parentheses is never handed to the evaluator and expands to 0.
C22_UnsafeNeverEvaluated ==
    applied.f = "expandArithmetic" =>
        \A expr \in Expressions :
            (/\ applied.input = <<"echo">> \o Arithmetic(expr)
             /\ \E k \in DOMAIN substituteNames(expr, applied.env) :
                   substituteNames(expr, applied.env)[k] \notin NumberWords \cup {"+", "*", "(", ")"})
            => /\ applied.result.handed = <<>>
               /\ applied.result.text = <<"echo", "0">>

\* The same for the words that hold a character outside the class of the
\* test, which lets the letters of Math.pow, floor, ceil and abs through.
C22_OutsideClassNeverEvaluated ==
    applied.f = "expandArithmetic" =>
        \A expr \in Expressions :
            (/\ applied.input = <<"echo">> \o Arithmetic(expr)
             /\ \E k \in DOMAIN substituteNames(expr, applied.env) :
                   substituteNames(expr, applied.env)[k] \in {"require", "true"})
            => /\ applied.result.handed = <<>>
               /\ applied.result.text = <<"echo", "0">>

\* The standard output of the commands of the substitution lines when they
\* run in the state the line started in, and the commands of them that are
\* a builtin of a single stage.
StdoutText(cmd) ==
    CASE cmd \in {<<"echo", "a">>, <<"echo", "a", "|", "cat">>,
                  <<"if", "true", ";", "then", "echo", "a", ";", "fi">>} -> <<"a", "\n">>
      [] cmd = <<"echo", "-n", "a">> -> <<"a">>
      [] cmd = <<"cat", "README.txt">> -> WelcomeText
      [] cmd = <<"g">> /\ "g" \in DOMAIN pre.functions -> <<"a", "\n">>
      [] OTHER -> <<>>

SingleBuiltins == {<<"echo", "a">>, <<"cat", "README.txt">>, <<"echo", "-n", "a">>, <<"true">>}

Substituted(cmd) ==
    \/ line = <<"echo", "$(">> \o cmd \o <<")">>
    \/ line = <<"echo", Backtick>> \o cmd \o <<Backtick>>

\* C23: $(cmd) and the backquote form are replaced by the standard output of cmd, its
\* trailing whitespace removed, for every cmd the shell can execute; none
\* of cmd's output reaches the real sink by itself.
C23_SubstitutionCaptures ==
    lineCount > 0 =>
        \A cmd \in SubstitutedCommands :
            Substituted(cmd) => StdoutOf(posted) = <<trimEnd(StdoutText(cmd)) \o <<"\n">>>>

\* The same for the commands that are a builtin of a single stage.
C23_BuiltinCaptured ==
    lineCount > 0 =>
        \A cmd \in SingleBuiltins :
            Substituted(cmd) => StdoutOf(posted) = <<trimEnd(StdoutText(cmd)) \o <<"\n">>>>

\* A command that is a pipeline, a function, a control structure or no
\* command is not run at all: nothing is dispatched but the echo.  (A ';'
\* between backquotes ends the segment, so that form is left out here.)
C23_OthersNotRun ==
    lineCount > 0 =>
        \A cmd \in SubstitutedCommands \ SingleBuiltins :
            (Substituted(cmd) /\ (line[2] = "$(" \/ \A k \in DOMAIN cmd : cmd[k] # ";")) =>
                /\ StdoutOf(posted) = <<<<"\n">>>>
                /\ \A k \in DOMAIN log : log[k].e = "dispatch" => log[k].cmd = "echo"

\* The exit code of the segment that completed last before the k-th event
\* of the line: of an earlier line when none of this line has.
LastCompleted(k) ==
    LET ends == {n \in 1..k - 1 : log[n].e = "segment-end"}
    IN IF ends = {} THEN pre.lastExitCode
       ELSE log[CHOOSE n \in ends : \A m \in ends : m <= n].code

\* C24: $? is set after every executed segment: what an echo $? prints, in
\* a later segment of the line or in a later line, in a loop body, a branch
\* or a function, is the exit code of the segment that completed last
\* before it, and the line leaves the exit code of its last segment.
C24_StatusOfLastSegment ==
    lineCount > 0 =>
        /\ \A k \in DOMAIN log :
              (log[k].e = "write" /\ ~log[k].err) =>
                  log[k].data = <<ToString(LastCompleted(k)), "\n">>
        /\ shell.lastExitCode = LastCompleted(Len(log) + 1)

\* The second line calls the function the first one defined: the echo in
\* its body prints 1, the one after the call 0.
C24_Witness ==
    /\ lineCount = 2
    /\ line = <<"f", ";", "echo", "$?">>
    /\ "f" \in DOMAIN pre.functions
    /\ StdoutOf(posted) = <<<<"1", "\n">>, <<"0", "\n">>>>

(***************************************************************************)
(* Claims about the builtins.                                              *)
(***************************************************************************)
\* The line is rm with these flags on a directory that was not empty when
\* the line started.
RemovesFullDirectory(flags, target) ==
    /\ line = <<"rm">> \o flags \o <<target>>
    /\ exists(pre.vfs, PathOfWord(target))
    /\ pre.vfs.nodes[getNode(pre.vfs, PathOfWord(target))].type = "directory"
    /\ DOMAIN pre.vfs.nodes[getNode(pre.vfs, PathOfWord(target))].children # {}

IsRecursive(flags) == \E k \in DOMAIN flags : flags[k] \in {"-r", "-rf"}

\* The nodes of the directory and below it when the line started.
TreeOf(target) == Reach(pre.vfs.nodes, {getNode(pre.vfs, PathOfWord(target))})

\* C25: rm of a directory that is not empty, without a recursive flag and
\* whatever other flags are given, returns a non-zero exit code and leaves
\* the directory and all below it in place; with -r the directory and all
\* below it are removed and the exit code is 0.
C25_RmDirectory ==
    lineCount > 0 =>
        \A flags \in RmFlags, target \in RmTargets :
            RemovesFullDirectory(flags, target) =>
                IF IsRecursive(flags)
                THEN /\ outcome = [thrown |-> "none", code |-> 0]
                     /\ ~exists(vfs, PathOfWord(target))
                     /\ TreeOf(target) \cap DOMAIN vfs.nodes = {}
                ELSE /\ outcome.thrown = "none" /\ outcome.code # 0
                     /\ vfs = pre.vfs

\* The same without -f among the flags and for a directory below the
\* root.
C25_RmDirectoryUnforced ==
    lineCount > 0 =>
        \A flags \in RmFlags, target \in RmTargets \ {"/"} :
            (RemovesFullDirectory(flags, target) /\ (IsRecursive(flags) \/ flags \notin {<<"-f">>, <<"-f", "-v">>})) =>
                IF IsRecursive(flags)
                THEN /\ outcome = [thrown |-> "none", code |-> 0]
                     /\ ~exists(vfs, PathOfWord(target))
                     /\ TreeOf(target) \cap DOMAIN vfs.nodes = {}
                ELSE /\ outcome.thrown = "none" /\ outcome.code # 0
                     /\ vfs = pre.vfs

\* With -f and no recursive flag the directory stays and rm returns 0.
C25_ForcedReturnsZero ==
    lineCount > 0 =>
        \A flags \in {<<"-f">>, <<"-f", "-v">>}, target \in RmTargets :
            RemovesFullDirectory(flags, target) =>
                outcome = [thrown |-> "none", code |-> 0] /\ vfs = pre.vfs

(***************************************************************************)
(* Claims about the parser.                                                *)
(***************************************************************************)
\* The operations a line of one control structure and what follows it is
\* split into: the structure, and the command after the operator.
OperationsOf(kind, body, rest) ==
    IF rest = <<>> THEN <<[command |-> Structure(kind, body), operator |-> "null"]>>
    ELSE <<[command |-> Structure(kind, body), operator |-> Head(rest)],
           [command |-> Tail(rest), operator |-> "null"]>>

\* The extractor and the splitter gave the outer structure whole.
ExtractedWhole(kind, body, rest) ==
    /\ (applied.f = "extractControlStructure" /\ applied.input = Structure(kind, body) \o rest)
         => applied.result = [found |-> TRUE, type |-> kind,
                              content |-> Structure(kind, body), remaining |-> rest]
    /\ (applied.f = "splitByOperators" /\ applied.input = Structure(kind, body) \o rest)
         => applied.result = OperationsOf(kind, body, rest)

\* C26: for a control structure that holds nested control structures, a
\* loop of another kind that shares the terminator done included, the
\* extractor returns the outer structure from its opening keyword through
\* its own terminator, and no separator or terminator of an inner
\* structure ends it or is taken as a separator of the line.
C26_OuterStructureWhole ==
    \A kind \in OuterKinds, body \in NestedBodies, rest \in Followers :
        ExtractedWhole(kind, body, rest)

\* A loop keyword that closes with done, other than the outer one.
OtherLoop(kind, inner) == inner \in {"for", "while", "until"} \ {kind} /\ kind # "if"

\* The same for the bodies that hold no loop of another kind.
C26_OuterWholeWithoutOtherLoop ==
    \A kind \in OuterKinds, inner \in InnerKinds :
        ~OtherLoop(kind, inner) =>
            \A rest \in Followers :
                /\ ExtractedWhole(kind, Inner(inner), rest)
                /\ ExtractedWhole(kind, Inner(inner) \o <<";", "echo", "y">>, rest)
                /\ ExtractedWhole(kind, <<"echo", "w", ";">> \o Inner(inner), rest)

\* With a loop of another kind in the body, the structure extracted ends
\* at the inner loop's done.
C26_InnerDoneEndsOuter ==
    \A kind \in OuterKinds, inner \in InnerKinds, rest \in Followers :
        (/\ OtherLoop(kind, inner)
         /\ applied.f = "extractControlStructure"
         /\ applied.input = Structure(kind, Inner(inner)) \o rest)
        => /\ applied.result.content = Opening(kind) \o Inner(inner)
           /\ applied.result.remaining = <<";", "done">> \o rest

(***************************************************************************)
(* Claims about the shell functions.                                       *)
(***************************************************************************)
\* What  echo $1 $#  prints when the positional parameters are args.
Parameters(args) ==
    (IF args = <<>> THEN <<>> ELSE <<Head(args)>>) \o <<ToString(Len(args)), "\n">>

\* What the bodies of f, g and h print when called with args.
BodyPrints(name, args) ==
    IF name = "g" THEN <<Parameters(<<"b">>), Parameters(args)>> ELSE <<Parameters(args)>>

\* The last step was the return of a call of a function of FunctionBodies,
\* with what it calls defined.
CallReturned ==
    /\ line \in FunctionCalls
    /\ Head(line) \in DOMAIN shell.functions
    /\ Head(line) = "g" => "f" \in DOMAIN shell.functions
    /\ \A h \in DOMAIN inflight : inflight[h].command # line
    /\ outcome.thrown = "none"

WritesOf(events) == DataOf(SelectSeq(events, LAMBDA ev : ev.e = "write"))

\* C27: when a shell function is called with arguments a1..an, its body
\* sees $1..$n as a1..an and $# as n, and when the call has returned with
\* an exit code the positional parameters are those of the caller again
\* (at the terminal: none), also across nested calls.
C27_CallFrame ==
    CallReturned =>
        /\ WritesOf(log) = BodyPrints(Head(line), Tail(line))
        /\ inflight = <<>> => shell.scriptArgs = <<>>

\* The same for the calls that return before another line is handled.
C27_CallFrameUninterrupted ==
    (CallReturned /\ Head(line) # "h") =>
        /\ WritesOf(log) = BodyPrints(Head(line), Tail(line))
        /\ shell.scriptArgs = pre.scriptArgs
        /\ shell.functions = pre.functions

\* A nested call has returned.
C27_NestedReturned == ~(CallReturned /\ Head(line) = "g")

\* The return of a suspended call leaves the function table as it is.
C27_FunctionsKept ==
    [][(\E h \in 1..MaxCalls : ResumeCall(h)) => shell'.functions = shell.functions]_vars

\* A call that was alone in flight from its start to its return sees its
\* own arguments and restores the caller's.
C27_AloneInFlight ==
    (CallReturned /\ Head(line) = "h" /\ inflight = <<>> /\ lineCount = 2) =>
        /\ WritesOf(log) = BodyPrints("h", Tail(line))
        /\ shell.scriptArgs = <<>>

(***************************************************************************)
(* Claims about the environment.                                           *)
(***************************************************************************)
\* The line before the last one was  export name=value  and returned 0
\* (an export of this form does), and the last line is  echo $name.
ExpandsAfterExport(assign, value, word) ==
    /\ lineCount = 2
    /\ Len(shell.history) = 2
    /\ shell.history[1] = <<"export", assign, value>>
    /\ pre.lastExitCode = 0
    /\ line = <<"echo", word>>

\* C28: after  export NAME=value  has returned 0, a later expansion of
\* $NAME in the session yields value.
C28_ExportPersists ==
    \A name \in {"x", "y"}, value \in {"2", "a", "b"} :
        LET assign == IF name = "x" THEN "x=" ELSE "y="
            word == IF name = "x" THEN "$x" ELSE "$y"
        IN ExpandsAfterExport(assign, value, word) => WritesOf(log) = <<<<value, "\n">>>>

\* What the code does: export and unset return and leave the variables of
\* the shell as they were, so the expansion after an export is empty.
C28_ExportLeavesShell ==
    /\ (line # <<>> /\ Head(line) \in {"export", "unset"}) =>
          /\ shell.env = NewEnv
          /\ shell.localVars = pre.localVars
    /\ shell.env = NewEnv
    /\ \A value \in {"2", "a"} :
          ExpandsAfterExport("x=", value, "$x") => WritesOf(log) = <<<<"\n">>>>

\* An assignment NAME=value persists: the next expansion yields value.
C28_AssignmentPersists ==
    (/\ lineCount = 2
     /\ Len(shell.history) = 2
     /\ shell.history[1] = <<"x=", "3">>
     /\ line = <<"echo", "$x">>)
    => WritesOf(log) = <<<<"3", "\n">>>>

\* The expansion after an assignment has happened.
C28_AssignedThenExpanded ==
    ~(lineCount = 2 /\ Len(shell.history) = 2 /\ shell.history[1] = <<"x=", "3">>
      /\ line = <<"echo", "$x">>)

(***************************************************************************)
(* Claims about the line editor.                                           *)
(***************************************************************************)
\* The last line was submitted while the editor was active.
InEditor == lineCount >= 1 /\ pre.editorState.active

\* The editor has handled the last line: an exit word deactivated it, a
\* line of text was appended to the buffer.
EditorHandled ==
    /\ trim(line) \in ExitWords => ~shell.editorState.active
    /\ line \in {<<"hello">>, <<"echo", "a">>} =>
          /\ shell.editorState.active
          /\ shell.editorState.buffer = Append(pre.editorState.buffer, line)

\* C29: while the editor started by nano is active, every line submitted to
\* the session is handled by the editor (appended to its buffer or
\* interpreted as an editor command), and .exit deactivates the editor, so
\* that the session can return to shell mode.
C29_EditorHandlesLines == InEditor => EditorHandled

\* What the worker does: once the editor is active every line leaves the
\* shell and the VFS as they were and is answered with the prompt '> ', so
\* the editor stays active.
C29_EditorIgnoresLines ==
    InEditor =>
        /\ shell.editorState = pre.editorState
        /\ shell.editorState.active
        /\ vfs = pre.vfs
        /\ posted = <<Message("prompt", <<"> ">>, 0)>>

C29_EditorNeverLeft == [][shell.editorState.active => shell'.editorState.active]_vars

\* nano starts the editor: the shell is in editor mode and the terminal
\* was told, and no exit code was posted.
C29_NanoStartsEditor ==
    (lineCount >= 1 /\ ~pre.editorState.active /\ Head(line) = "nano") =>
        /\ shell.editorState.active
        /\ session.isInRepl
        /\ \A i \in DOMAIN posted : posted[i].type # "exit"

\* Called directly, executeEditorInput does handle the lines.
C29_EditorItself == (InEditor /\ Head(line) # "nano") => EditorHandled

\* A line was handled while the editor was active.
C29_LineInEditor == ~(InEditor /\ line = <<".exit">>)

(***************************************************************************)
(* Claims about the sandbox backend.                                       *)
(***************************************************************************)
\* The container of connection c exists in Docker.
Exists(c) == backend[c].docker \in {"created", "running", "stopped"}

\* C30: for every connection, a container created for it is eventually
\* stopped and removed once the connection has closed, also when the socket
\* closes or errors while the container is being created, started or
\* attached.
C30_ContainerRemoved ==
    \A c \in Conns : <>[](backend[c].ws = "closed" => ~Exists(c))

\* C30, second part: cleanup runs its stop and remove steps at most once
\* per connection.
C30_CleanupOnce == \A c \in Conns : backend[c].stops <= 1 /\ backend[c].removes <= 1

\* A cleanup that found the container stops and removes it.
C30_CleanupRemoves ==
    \A c \in Conns : (backend[c].cleaning = "done" /\ backend[c].stops = 1) => ~Exists(c)

\* The socket closed and every step is done.
Quiet(c) ==
    /\ backend[c].ws = "closed"
    /\ backend[c].pc \in {"ready", "done"}
    /\ backend[c].cleaning = "done"

\* A container is left behind only by a cleanup that ran before
\* createContainer had resolved.
C30_LeftOnlyWhenCreating ==
    \A c \in Conns : (Quiet(c) /\ Exists(c)) => backend[c].stops = 0

\* A connection that closed when its container was attached.
C30_ClosedWhenReady ==
    ~\E c \in Conns : Quiet(c) /\ backend[c].pc = "ready" /\ backend[c].stops = 1

=============================================================================
